---- MODULE Spec2Model ----
(***************************************************************************)
(* Model of the Mission Interface Adapter (MIA) packet router:             *)
(* the MD, VMW and KBA/MPLS UDP endpoints with their write queues and      *)
(* K-frame delayed maps, the SOKF timing endpoint, and the VMW batch       *)
(* builder.  All handlers run on one executor thread, so every handler is  *)
(* one atomic action.                                                      *)
(***************************************************************************)
EXTENDS Integers, Sequences, FiniteSets, TLC

(***************************************************************************)
(* Program constants                                                       *)
(***************************************************************************)
MAX_MPLS_BATCH_SIZE == 38880
MPLS_NUM_BYTES_SIZE == 2
THRESHOLD == 1
MAX_K_FRAME_OFFSET == 9
NUM_K_FRAME_OFFSETS == MAX_K_FRAME_OFFSET + 1
SOKF_SIZE == 12
MPLS_HEADER_SIZE == 4
PACKET_SIZE_FIELD == 2
\* a fixed-size ITM (header and payload) as handed to SendUplinkITM
FIXED_ITM_SIZE == 48

(***************************************************************************)
(* uint32_t values.  k_frame_count_, the delay returned by ItmDelay::get   *)
(* and the keys of the delayed maps are uint32_t; a value is held as two   *)
(* 16-bit halves, value = hi * 2^16 + lo.                                  *)
(***************************************************************************)
Half == 256 * 256
U32(hi, lo) == [ hi |-> hi, lo |-> lo ]
Zero32 == U32(0, 0)
One32 == U32(0, 1)
\* uint32_t addition: the sum is reduced modulo 2^32
Add32(a, b) ==
  LET lo == a.lo + b.lo
  IN  U32((a.hi + b.hi + (lo \div Half)) % Half, lo % Half)
Leq32(a, b) == a.hi < b.hi \/ (a.hi = b.hi /\ a.lo <= b.lo)
Less32(a, b) == Leq32(a, b) /\ a # b

(***************************************************************************)
(* Bounds of the model                                                     *)
(***************************************************************************)
\* valid SOKFs and received buffers in a run of Spec
MaxFrame == 2
MaxPackets == 2
\* valid SOKFs in a run of SpecSokf
MaxSokf == 3
\* valid SOKFs and received buffers in a run of SpecFrames
MaxCounted == 4
MaxFramesPackets == 1
\* uplink packets in a run of SpecBulk
MaxBulk == 721
\* data-plane and control-plane uplink packets in a run of SpecOrder
MaxOrderData == 707
MaxOrderControl == 695
\* datagrams read in a run of SpecDownlink
MaxReads == 2
\* datagrams read, buffer ids open to uplink ITMs and valid SOKFs in SpecRoute
MaxRouteReads == 1
MaxRouteUplink == 1
MaxRouteFrames == 1
\* datagrams read and valid SOKFs in a run of SpecMD
MaxMdReads == 2
MaxMdFrames == 1
\* datagrams read and valid SOKFs in a run of SpecMdDownlink
MaxSendReads == 2
MaxSendFrames == 2
\* sub-packets in a message given to the parser on its own
MaxParsed == 2
\* datagrams read in a run of SpecBatch
MaxBatchReads == 2
\* closures posted, datagrams read and valid SOKFs in a run of SpecConfig
MaxPosted == 3
MaxConfigReads == 1
MaxConfigFrames == 1
\* packets and valid SOKFs in a run of SpecSendErrors
MaxErrorPackets == 3
MaxErrorFrames == 1
\* packets and valid SOKFs in a run of SpecTimeslot
MaxTimeslotPackets == 3
MaxTimeslotFrames == 2
\* SpecSynthesis: uplink packets prepared, SOKF datagrams received
MaxSynthesisPackets == 2
MaxSynthesisFrames == 1
\* closures posted after Start, packets and valid SOKFs in a run of SpecPolicy
MaxPolicyPosted == 1
MaxPolicyPackets == 2
MaxPolicyFrames == 2
\* packets and valid SOKFs in a run of SpecProgress
MaxProgressPackets == 2
MaxProgressFrames == 1
(***************************************************************************)
(* Input samples                                                           *)
(***************************************************************************)
\* values the route-delay lookup ItmDelay::get() returns (a uint32_t)
Delays == { U32(0, 0), U32(0, 1), U32(0, 2), U32(Half - 1, Half - 1) }
\* error codes handed to a completion handler
ErrorCodes == {"success", "operation_canceled", "other_error"}
\* the same without the cancellation, which a completion handler of a send
\* treats like any other error but for the level of the message it logs
SendOutcomes == {"success", "other_error"}
\* values of the external constant VMW_COMMON_MAX_PACKETS_PER_TIMESLOT
TimeslotLimits == {2, 1000}
\* its values in SpecTimeslot: limits that a few packets reach
SmallTimeslotLimits == {1, 2}
\* its values in SpecBulk
BulkTimeslotLimits == {2, 720, 1000}
\* uplink ITMs handed to SendUplinkITM: payload type, VITM flag, byte count
\* and, for a VITM, whether its payload size lies within
\* MIN_VITM_PAYLOAD_SIZE..MAX_VITM_PAYLOAD_SIZE
UplinkITMs ==
  { [payload_type |-> 0, vitm |-> FALSE, vitm_in_bounds |-> FALSE, size |-> FIXED_ITM_SIZE],
    [payload_type |-> 2, vitm |-> FALSE, vitm_in_bounds |-> FALSE, size |-> FIXED_ITM_SIZE] }
\* uplink MPLS packets handed to SendUplinkMPLSPacket: payload type and VITM
\* flag of the ITM header behind the MPLS header, byte count
UplinkMPLSPackets ==
  { [payload_type |-> 3, vitm |-> TRUE, vitm_in_bounds |-> TRUE, size |-> 64],
    [payload_type |-> 4, vitm |-> TRUE, vitm_in_bounds |-> TRUE, size |-> 64] }
\* the uplink ITMs of SpecSynthesis: fixed-size and variable-size ITMs of
\* mission-data (0, 1, 3) and other (2, 4) payload types, several lengths,
\* the last one a VITM whose payload is below the minimum
SynthesisITMs ==
  { [payload_type |-> 0, vitm |-> FALSE, vitm_in_bounds |-> FALSE, size |-> FIXED_ITM_SIZE],
    [payload_type |-> 3, vitm |-> FALSE, vitm_in_bounds |-> FALSE, size |-> FIXED_ITM_SIZE],
    [payload_type |-> 2, vitm |-> FALSE, vitm_in_bounds |-> FALSE, size |-> FIXED_ITM_SIZE],
    [payload_type |-> 1, vitm |-> TRUE, vitm_in_bounds |-> TRUE, size |-> 100],
    [payload_type |-> 4, vitm |-> TRUE, vitm_in_bounds |-> TRUE, size |-> 7],
    [payload_type |-> 4, vitm |-> TRUE, vitm_in_bounds |-> FALSE, size |-> 5] }
\* the uplink MPLS packets of SpecSynthesis: a fixed-size mission-data ITM
\* and variable-size ITMs behind their MPLS headers
SynthesisMPLSPackets ==
  { [payload_type |-> 0, vitm |-> FALSE, vitm_in_bounds |-> FALSE,
     size |-> MPLS_HEADER_SIZE + FIXED_ITM_SIZE],
    [payload_type |-> 3, vitm |-> TRUE, vitm_in_bounds |-> TRUE, size |-> 64],
    [payload_type |-> 4, vitm |-> TRUE, vitm_in_bounds |-> TRUE, size |-> 300] }
\* malformed SOKF datagrams (byte count, msg_id matches TACSokfMsgId, msg_len,
\* offset): an offset above the maximum, a foreign msg_id, a wrong msg_len, and
\* a datagram that is not 12 bytes long
SokfMalformed ==
  { [bytes |-> SOKF_SIZE, id_ok |-> TRUE, msg_len |-> SOKF_SIZE, kframe_offset |-> 10],
    [bytes |-> SOKF_SIZE, id_ok |-> FALSE, msg_len |-> SOKF_SIZE, kframe_offset |-> 5],
    [bytes |-> SOKF_SIZE, id_ok |-> TRUE, msg_len |-> 8, kframe_offset |-> 5],
    [bytes |-> 8, id_ok |-> TRUE, msg_len |-> SOKF_SIZE, kframe_offset |-> 5] }
\* SOKF datagrams: a well-formed one, one with an offset above the maximum, a short one
SokfDatagrams ==
  { [bytes |-> SOKF_SIZE, id_ok |-> TRUE, msg_len |-> SOKF_SIZE, kframe_offset |-> 5],
    [bytes |-> SOKF_SIZE, id_ok |-> TRUE, msg_len |-> SOKF_SIZE, kframe_offset |-> 10],
    [bytes |-> 8, id_ok |-> TRUE, msg_len |-> SOKF_SIZE, kframe_offset |-> 5] }
\* the offsets 3, 4, 6, 7 in well-formed datagrams, next to the malformed ones
SokfDatagramsFrames ==
  { [bytes |-> SOKF_SIZE, id_ok |-> TRUE, msg_len |-> SOKF_SIZE, kframe_offset |-> o] :
      o \in {3, 4, 6, 7} }
  \cup SokfMalformed
\* every offset 0..10 in otherwise well-formed 12-byte datagrams, and one short datagram
SokfDatagramsAllOffsets ==
  { [bytes |-> SOKF_SIZE, id_ok |-> TRUE, msg_len |-> SOKF_SIZE, kframe_offset |-> o] :
      o \in 0..(MAX_K_FRAME_OFFSET + 1) }
  \cup { [bytes |-> 8, id_ok |-> TRUE, msg_len |-> SOKF_SIZE, kframe_offset |-> 5] }

VARIABLES
  started,                 \* DataRouter::Start_i has run
  VMW_COMMON_MAX_PACKETS_PER_TIMESLOT,
  next_id,                 \* identity given to the next buffer received
  \* MDInterface
  md_k_frame_count_, md_write_queue_, md_write_delayed_, md_socket_open, md_sends,
  \* VMWInterface
  vmw_k_frame_count_, vmw_write_queue_, vmw_write_delayed_, vmw_socket_open, vmw_sends,
  vmw_drained,             \* history: entries the last HandleWriteDelayed gave the builder
  vmw_policy_drops,        \* history: ids of those the toSv drop policy dropped
  tosv_applied,            \* history: the packets the last drain asked the toSv policy about
  \* MPLSInterface (KBA)
  kba_write_queue_, kba_socket_open, kba_sends,
  \* SOKFInterface
  synchronizing_, prev_kframe_offset_, sokf_socket_open, sokf_read_posted,
  TotalSokfMissed,
  valid_sokfs,             \* history: kframe offsets of the valid SOKFs received
  sokf_last_dg,            \* history: the last 12-byte datagram HandleReadData examined
  sokf_notified,           \* history: the OnSOKF calls the last callback made, in order
  \* configuration and statistics
  dest_valid,              \* per destination address: neither INVALID_IP nor INVALID_PORT
  TotalInvalidMplsPacketsDiscarded, TotalMplsPacketsConverted,
  \* VMWInterface, read side
  vmw_read_posted,
  vmw_reads,               \* history: datagrams VMWInterface::OnReadComplete was given
  vmw_last_dg,             \* history: the last datagram VMWInterface::OnReadComplete was given
  route_calls,             \* history: the DataRouter calls of the last read handler
  tpn_downlink,            \* history: the packets it gave TPNInterface::SendDownlinkMPLSPacket
  tosim_drops,             \* history: the packets the toSim drop policy made it drop
  route_outcomes,          \* history: what each of its RouteDownlinkMPLSPacket calls did
  \* MPLSInterface, read side
  kba_read_posted,
  kba_reads,               \* history: datagrams MPLSInterface::OnReadComplete was given
  \* MDInterface, read side
  md_read_posted,
  md_reads,                \* history: datagrams MDInterface::OnReadComplete was given
  md_last_dg,              \* history: the last datagram MDInterface::OnReadComplete was given
  uplink_itm_calls,        \* history: the RouteUplinkITM calls of the last MD read handler
  \* dynamic configuration: the TPN interface's checksum switch, the ItmDelay
  \* table and the two families of drop policies
  udp_checksum_, itm_delay_, tosim_drop_policies_, tosv_drop_policies_,
  \* VMWMessageParser::Perform called on its own
  parser_called,           \* history: Perform has been called
  parser_input,            \* history: the message of its last call
  parser_result,           \* history: the vector its last call returned
  parser_log,              \* history: the levels of the messages its last call logged
  \* DataRouter::io_service_
  io_service_,             \* the closures posted and not yet run, oldest first
  io_posts,                \* history: the number of closures posted
  \* the write side of the MD, VMW and MPLS interfaces
  send_errors              \* history: the sends that completed with an error

vars == << started, VMW_COMMON_MAX_PACKETS_PER_TIMESLOT, next_id,
           md_k_frame_count_, md_write_queue_, md_write_delayed_, md_socket_open, md_sends,
           vmw_k_frame_count_, vmw_write_queue_, vmw_write_delayed_, vmw_socket_open,
           vmw_sends, vmw_drained, vmw_policy_drops, tosv_applied,
           kba_write_queue_, kba_socket_open, kba_sends,
           synchronizing_, prev_kframe_offset_, sokf_socket_open, sokf_read_posted,
           TotalSokfMissed, valid_sokfs, sokf_last_dg, sokf_notified,
           dest_valid, TotalInvalidMplsPacketsDiscarded, TotalMplsPacketsConverted,
           vmw_read_posted, vmw_reads, vmw_last_dg, route_calls, tpn_downlink, tosim_drops,
           route_outcomes, kba_read_posted, kba_reads,
           md_read_posted, md_reads, md_last_dg, uplink_itm_calls,
           udp_checksum_, itm_delay_, tosim_drop_policies_, tosv_drop_policies_,
           parser_called, parser_input, parser_result, parser_log,
           io_service_, io_posts, send_errors >>

mdVars == << md_k_frame_count_, md_write_queue_, md_write_delayed_, md_socket_open, md_sends >>
vmwVars == << vmw_k_frame_count_, vmw_write_queue_, vmw_write_delayed_, vmw_socket_open,
              vmw_sends, vmw_drained, vmw_policy_drops, tosv_applied >>
kbaVars == << kba_write_queue_, kba_socket_open, kba_sends >>
sokfVars == << synchronizing_, prev_kframe_offset_, sokf_socket_open, sokf_read_posted,
               TotalSokfMissed, valid_sokfs, sokf_last_dg, sokf_notified >>
\* the read side of the MD interface
mdReadVars == << md_read_posted, md_reads, md_last_dg, uplink_itm_calls >>
\* what DataRouter::ChangeConfig_i and ChangeConfigToDefault_i work on
configVars == << udp_checksum_, itm_delay_, tosim_drop_policies_, tosv_drop_policies_ >>
\* a call of VMWMessageParser::Perform
parserVars == << parser_called, parser_input, parser_result, parser_log >>
\* the work posted to the dedicated thread of the DataRouter
executorVars == << io_service_, io_posts >>
\* what only the read handlers and the configuration commands change
readerVars == << dest_valid, TotalInvalidMplsPacketsDiscarded, TotalMplsPacketsConverted,
                 vmw_read_posted, vmw_reads, vmw_last_dg, route_calls, tpn_downlink,
                 tosim_drops, route_outcomes, kba_read_posted, kba_reads,
                 mdReadVars, configVars, parserVars, executorVars >>
\* the same and the record of the sends that failed, which only the
\* completion handlers of the sends change
routerVars == << readerVars, send_errors >>

(***************************************************************************)
(* std::multimap<uint32_t, T> as a sequence of (first, second) pairs kept  *)
(* in ascending key order                                                  *)
(***************************************************************************)
\* an emplace that puts the new element at the lower bound of its key, in front
\* of the elements already stored under that key
EmplaceLowerBound(m, k, v) ==
  LET n == Cardinality({i \in 1..Len(m) : Less32(m[i].first, k)})
  IN  SubSeq(m, 1, n) \o << [first |-> k, second |-> v] >> \o SubSeq(m, n + 1, Len(m))

\* multimap::emplace: the new element goes at the upper bound of its key
Emplace(m, k, v) ==
  LET n == Cardinality({i \in 1..Len(m) : Leq32(m[i].first, k)})
  IN  SubSeq(m, 1, n) \o << [first |-> k, second |-> v] >> \o SubSeq(m, n + 1, Len(m))

\* a payload-type test that forgets the third mission-data type
IsMissionDataPayloadTypeTwoTypes(payload_type) == payload_type \in {0, 1}

IsMissionDataPayloadType(payload_type) == payload_type \in {0, 1, 3}


(***************************************************************************)
(* VMWMessageBuilder.  A builder is the record of its four members; the    *)
(* write queue it refers to is carried along as write_queue_.              *)
(***************************************************************************)
\* the constructed builder
NewBuilder(write_queue) ==
  [ pending_control_packets_      |-> << >>,
    pending_control_packets_size_ |-> 0,
    pending_data_packets_         |-> << >>,
    pending_data_packets_size_    |-> 0,
    write_queue_                  |-> write_queue,
    \* history: the packets to_sv_drop_policies_.apply was called for
    to_sv_applied                 |-> << >> ]

\* a VMW message holding a batch of MPLS packets
BuildMessageBytes(destination, mpls_packets) ==
  [ destination |-> destination, kind |-> "batch", packets |-> mpls_packets, id |-> 0 ]

\* a private add_packet that never builds a message on its own: the packet is
\* appended whatever the accumulated size
add_packet_pending_no_flush(pending_packets, pending_packets_size, write_queue, mpls_packet, destination) ==
  [ pending |-> Append(pending_packets, mpls_packet),
    size    |-> pending_packets_size + (mpls_packet.size + MPLS_NUM_BYTES_SIZE),
    queue   |-> write_queue ]

\* private add_packet overload on one (pending_packets, pending_packets_size) pair
add_packet_pending(pending_packets, pending_packets_size, write_queue, mpls_packet, destination) ==
  LET mpls_packet_bytes_size == mpls_packet.size
      must_build_message ==
        (pending_packets_size + mpls_packet_bytes_size + MPLS_NUM_BYTES_SIZE)
          > MAX_MPLS_BATCH_SIZE
      queue1 == IF must_build_message
                THEN Append(write_queue, BuildMessageBytes(destination, pending_packets))
                ELSE write_queue
      pending1 == IF must_build_message THEN << >> ELSE pending_packets
      size1 == IF must_build_message THEN 0 ELSE pending_packets_size
  IN  [ pending |-> Append(pending1, mpls_packet),
        size    |-> size1 + (mpls_packet_bytes_size + MPLS_NUM_BYTES_SIZE),
        queue   |-> queue1 ]

\* a WriteIfReady that waits until a pending list is longer than the threshold
WriteIfReadyAbove(b, threshold) ==
  LET b1 == IF Len(b.pending_control_packets_) > threshold
            THEN [b EXCEPT !.write_queue_ =
                             Append(@, BuildMessageBytes("CP", b.pending_control_packets_)),
                           !.pending_control_packets_ = << >>]
            ELSE b
  IN  IF Len(b1.pending_data_packets_) > threshold
      THEN [b1 EXCEPT !.write_queue_ =
                        Append(@, BuildMessageBytes("DP", b1.pending_data_packets_)),
                      !.pending_data_packets_ = << >>]
      ELSE b1

\* WriteIfReady: the byte accumulators are not touched here
WriteIfReady(b, threshold) ==
  LET b1 == IF Len(b.pending_control_packets_) >= threshold
            THEN [b EXCEPT !.write_queue_ =
                             Append(@, BuildMessageBytes("CP", b.pending_control_packets_)),
                           !.pending_control_packets_ = << >>]
            ELSE b
  IN  IF Len(b1.pending_data_packets_) >= threshold
      THEN [b1 EXCEPT !.write_queue_ =
                        Append(@, BuildMessageBytes("DP", b1.pending_data_packets_)),
                      !.pending_data_packets_ = << >>]
      ELSE b1

\* the builder after the private add_packet worked on the data-plane members
WithDataPending(b, r) ==
  [b EXCEPT !.pending_data_packets_ = r.pending,
            !.pending_data_packets_size_ = r.size,
            !.write_queue_ = r.queue]

\* the builder after the private add_packet worked on the control-plane members
WithControlPending(b, r) ==
  [b EXCEPT !.pending_control_packets_ = r.pending,
            !.pending_control_packets_size_ = r.size,
            !.write_queue_ = r.queue]

\* an add_packet that asks the drop policy about every packet, the mission
\* data included
add_packet_asking_first(b, mpls_packet, drop, timeslot_limit) ==
  LET asked == [b EXCEPT !.to_sv_applied = Append(@, mpls_packet.id)]
  IN  IF drop
      THEN asked
      ELSE IF IsMissionDataPayloadType(mpls_packet.payload_type)
      THEN WriteIfReady(
             WithDataPending(asked, add_packet_pending(b.pending_data_packets_,
                                                       b.pending_data_packets_size_,
                                                       b.write_queue_, mpls_packet, "DP")),
             timeslot_limit)
      ELSE WriteIfReady(
             WithControlPending(asked, add_packet_pending(b.pending_control_packets_,
                                                          b.pending_control_packets_size_,
                                                          b.write_queue_, mpls_packet, "CP")),
             timeslot_limit)

\* an add_packet that asks the drop policy but adds the packet all the same
add_packet_despite_drop(b, mpls_packet, drop, timeslot_limit) ==
  LET payload_type == mpls_packet.payload_type
  IN  IF IsMissionDataPayloadType(payload_type)
      THEN WriteIfReady(
             WithDataPending(b, add_packet_pending(b.pending_data_packets_,
                                                   b.pending_data_packets_size_,
                                                   b.write_queue_, mpls_packet, "DP")),
             timeslot_limit)
      ELSE WriteIfReady(
             WithControlPending(b, add_packet_pending(b.pending_control_packets_,
                                                      b.pending_control_packets_size_,
                                                      b.write_queue_, mpls_packet, "CP")),
             timeslot_limit)

\* public add_packet; drop is the answer of to_sv_drop_policies_.apply, which
\* is asked only for a packet that is not mission data
add_packet(b, mpls_packet, drop, timeslot_limit) ==
  LET payload_type == mpls_packet.payload_type
  IN  IF IsMissionDataPayloadType(payload_type)
      THEN WriteIfReady(
             WithDataPending(b, add_packet_pending(b.pending_data_packets_,
                                                   b.pending_data_packets_size_,
                                                   b.write_queue_, mpls_packet, "DP")),
             timeslot_limit)
      ELSE LET asked == [b EXCEPT !.to_sv_applied = Append(@, mpls_packet.id)]
           IN  IF drop
               THEN asked
               ELSE WriteIfReady(
                      WithControlPending(asked,
                                         add_packet_pending(b.pending_control_packets_,
                                                            b.pending_control_packets_size_,
                                                            b.write_queue_, mpls_packet, "CP")),
                      timeslot_limit)

\* a finalize that flushes a plane only when two packets are pending
finalize_pairs(b) == WriteIfReady(b, 2)

\* finalize: flush whatever is pending
finalize(b) == WriteIfReady(b, THRESHOLD)

\* the number of entries the drain loops take from a delayed map: they stop at
\* the first entry whose key is not <= k_frame_count
DueCount(write_delayed, k_frame_count) ==
  LET late == { i \in 1..Len(write_delayed) : ~Leq32(write_delayed[i].first, k_frame_count) }
  IN  IF late = {}
      THEN Len(write_delayed)
      ELSE (CHOOSE i \in late : \A j \in late : i <= j) - 1

\* the entries a drain loop takes from the map, in the order it takes them
DueEntries(write_delayed, k_frame_count) ==
  SubSeq(write_delayed, 1, DueCount(write_delayed, k_frame_count))

\* the loop of HandleWriteDelayed on the due entries lo..hi:
\* message_builder.add_packet for each, front to back
RECURSIVE DrainDelayed(_, _, _, _, _, _)
DrainDelayed(b, due, lo, hi, dropped, timeslot_limit) ==
  IF lo > hi
  THEN b
  ELSE IF lo = hi
  THEN add_packet(b, due[lo].second, due[lo].second.id \in dropped, timeslot_limit)
  ELSE LET mid == (lo + hi) \div 2
           front == DrainDelayed(b, due, lo, mid, dropped, timeslot_limit)
       IN  \* the test makes the front half be computed before the back half starts
           IF Len(front.write_queue_) >= 0
           THEN DrainDelayed(front, due, mid + 1, hi, dropped, timeslot_limit)
           ELSE front

\* the delayed map after a drain loop erased the entries it took
RemainingDelayed(write_delayed, k_frame_count) ==
  SubSeq(write_delayed, DueCount(write_delayed, k_frame_count) + 1, Len(write_delayed))

\* HandleWriteDelayed: construct the builder, drain, finalize; the result is the
\* builder at the end, whose write_queue_ is the interface's write queue
HandleWriteDelayed(write_queue, write_delayed, k_frame_count, dropped, timeslot_limit) ==
  finalize(DrainDelayed(NewBuilder(write_queue), write_delayed,
                        1, DueCount(write_delayed, k_frame_count),
                        dropped, timeslot_limit))

(***************************************************************************)
(* Initial state: the DataRouter and its interfaces as constructed         *)
(***************************************************************************)
\* the destination addresses of the configuration
Destinations ==
  { "CP_VMW_DEST_ADDRESS", "DP_VMW_DEST_ADDRESS", "KBA_DEST_ADDRESS",
    "MISSION_DATA_DEST_ADDRESS" }
\* a configuration in which every destination is a real address
AllValid == [ a \in Destinations |-> TRUE ]
\* before the VMW endpoint was given any datagram
NoVmwDatagram == [ size |-> 0, message_length |-> 0, num_packets |-> 0, subs |-> << >> ]
\* before the MD endpoint was given any datagram
NoMdDatagram ==
  [ size |-> 0, vitm |-> FALSE, vitm_in_bounds |-> FALSE, payload_type |-> 0,
    sourceNode |-> 0, dstnid |-> 0 ]
\* the payload types of an ITM header (3 bits)
PayloadTypes == 0..7
\* the dynamic configuration at its configured defaults: no UDP checksum, a
\* default route delay of no frame and no route of its own delay, and no
\* payload type with a drop algorithm
DefaultUdpChecksum == FALSE
DefaultItmDelay == [ default_delay |-> Zero32, route_delays |-> {} ]
DefaultDropPolicies == {}
\* before any datagram was examined
NoDatagram == [ bytes |-> 0, id_ok |-> FALSE, msg_len |-> 0, kframe_offset |-> 0 ]

\* ChangeConfig::CommandData: five optional fields, << >> when not set
CommandData(udpchksm, itmdelay, miaroutedelay, miadroptosim, miadroptosv) ==
  [ udpchksm |-> udpchksm, itmdelay |-> itmdelay, miaroutedelay |-> miaroutedelay,
    miadroptosim |-> miadroptosim, miadroptosv |-> miadroptosv ]
NoCommandData == CommandData(<< >>, << >>, << >>, << >>, << >>)
\* a closure posted to io_service_: the method it calls and what it captured
PostedTask(fn, cmd_data) == [ fn |-> fn, cmd_data |-> cmd_data ]

\* the state after construction, the closures posted being already in io_service_
InitPosted(timeslot_limits, dest_configs, itm_delays, posted) ==
  /\ io_service_ = posted
  /\ io_posts = Len(posted)
  /\ send_errors = {}
  /\ started = FALSE
  /\ VMW_COMMON_MAX_PACKETS_PER_TIMESLOT \in timeslot_limits
  /\ next_id = 1
  /\ md_k_frame_count_ = Zero32
  /\ md_write_queue_ = << >>
  /\ md_write_delayed_ = << >>
  /\ md_socket_open = TRUE
  /\ md_sends = << >>
  /\ vmw_k_frame_count_ = Zero32
  /\ vmw_write_queue_ = << >>
  /\ vmw_write_delayed_ = << >>
  /\ vmw_socket_open = TRUE
  /\ vmw_sends = << >>
  /\ vmw_drained = << >>
  /\ vmw_policy_drops = {}
  /\ tosv_applied = << >>
  /\ kba_write_queue_ = << >>
  /\ kba_socket_open = TRUE
  /\ kba_sends = << >>
  /\ synchronizing_ = TRUE
  /\ prev_kframe_offset_ = 0
  /\ sokf_socket_open = TRUE
  /\ sokf_read_posted = FALSE
  /\ TotalSokfMissed = 0
  /\ valid_sokfs = << >>
  /\ sokf_last_dg = NoDatagram
  /\ sokf_notified = << >>
  /\ dest_valid \in dest_configs
  /\ TotalInvalidMplsPacketsDiscarded = 0
  /\ TotalMplsPacketsConverted = 0
  /\ vmw_read_posted = FALSE
  /\ vmw_reads = 0
  /\ kba_reads = 0
  /\ vmw_last_dg = NoVmwDatagram
  /\ route_calls = << >>
  /\ tpn_downlink = << >>
  /\ tosim_drops = {}
  /\ route_outcomes = << >>
  /\ kba_read_posted = FALSE
  /\ md_read_posted = FALSE
  /\ md_reads = 0
  /\ md_last_dg = NoMdDatagram
  /\ uplink_itm_calls = << >>
  /\ udp_checksum_ = DefaultUdpChecksum
  /\ itm_delay_ \in itm_delays
  /\ tosim_drop_policies_ = DefaultDropPolicies
  /\ tosv_drop_policies_ = DefaultDropPolicies
  /\ parser_called = FALSE
  /\ parser_input = NoVmwDatagram
  /\ parser_result = << >>
  /\ parser_log = << >>

\* the state after construction and the call of DataRouter::Start
InitConfig(timeslot_limits, dest_configs, itm_delays) ==
  InitPosted(timeslot_limits, dest_configs, itm_delays,
             << PostedTask("Start_i", NoCommandData) >>)

InitWith(timeslot_limits) == InitConfig(timeslot_limits, { AllValid }, { DefaultItmDelay })

Init == InitWith(TimeslotLimits)

\* DataRouter::Start_i, run as the closure DataRouter::Start posted: every
\* interface posts its first receive
Start_i ==
  /\ io_service_ # << >>
  /\ Head(io_service_).fn = "Start_i"
  /\ io_service_' = Tail(io_service_)
  /\ UNCHANGED io_posts
  /\ ~started
  /\ started' = TRUE
  /\ sokf_read_posted' = TRUE
  /\ vmw_read_posted' = TRUE
  /\ kba_read_posted' = TRUE
  /\ md_read_posted' = TRUE
  /\ UNCHANGED << md_reads, md_last_dg, uplink_itm_calls, configVars, parserVars,
                  send_errors >>
  /\ UNCHANGED << VMW_COMMON_MAX_PACKETS_PER_TIMESLOT, next_id, mdVars, vmwVars, kbaVars,
                  synchronizing_, prev_kframe_offset_, sokf_socket_open, TotalSokfMissed,
                  valid_sokfs, sokf_last_dg, sokf_notified,
                  dest_valid, TotalInvalidMplsPacketsDiscarded, TotalMplsPacketsConverted,
                  vmw_reads, kba_reads, vmw_last_dg, route_calls, tpn_downlink,
                  tosim_drops, route_outcomes >>

(***************************************************************************)
(* The write loop shared by the MD, VMW and MPLS interfaces.  sends is the *)
(* sequence of write-queue items whose async_send_to is outstanding.       *)
(***************************************************************************)
\* a DoWrite that sends the back of the write queue
DoWriteBack(sends, write_queue) == Append(sends, write_queue[Len(write_queue)])

\* DoWrite: ask the socket to send the front of the write queue
DoWrite(sends, write_queue) == Append(sends, write_queue[1])

\* an OnWriteComplete that calls log::fatal for every error code
WriteCompleteErrorsAllFatal(errors, fn, ec) ==
  IF ec = "success" THEN errors
  ELSE errors \cup { [ fn |-> fn, ec |-> ec, level |-> "fatal" ] }

\* the record of the failed sends after OnWriteComplete(ec) of the interface
\* fn: an error is logged, as information when the operation was cancelled
\* and as fatal otherwise
WriteCompleteErrors(errors, fn, ec) ==
  IF ec = "success" THEN errors
  ELSE errors \cup { [ fn |-> fn, ec |-> ec,
                       level |-> IF ec = "operation_canceled" THEN "info" ELSE "fatal" ] }

\* the write queue after OnWriteComplete(ec)
WriteCompleteQueue(write_queue, ec) ==
  IF ec # "success" THEN write_queue ELSE Tail(write_queue)

\* an OnWriteComplete that pops the front and leaves the rest of the queue
\* to the next caller of DoWrite
WriteCompleteSendsNoNext(sends, write_queue, ec) == Tail(sends)

\* the outstanding sends after OnWriteComplete(ec): the completed one is gone,
\* and after a success the next one is started if the queue is not empty
WriteCompleteSends(sends, write_queue, ec) ==
  IF ec # "success"
  THEN Tail(sends)
  ELSE IF Tail(write_queue) # << >>
       THEN DoWrite(Tail(sends), Tail(write_queue))
       ELSE Tail(sends)

(***************************************************************************)
(* MDInterface                                                             *)
(***************************************************************************)
\* the members of the MD interface that SendDownlinkITM works on
MDMembers ==
  [ write_queue_ |-> md_write_queue_, write_delayed_ |-> md_write_delayed_,
    sends |-> md_sends ]

\* the body of MDInterface::SendDownlinkITM on those members, for the ITM id;
\* k_frame_to_delay is what itm_delay_.get returned
SendDownlinkITMOn(md, id, k_frame_count, k_frame_to_delay) ==
  LET itm_data == [ id |-> id, enq_frame |-> k_frame_count,
                    enq_delay |-> k_frame_to_delay ]
      k_frame_count_to_write == Add32(k_frame_count, k_frame_to_delay)
      initiate_write == md.write_queue_ = << >>
  IN  IF Less32(Zero32, k_frame_to_delay)
      THEN [ md EXCEPT !.write_delayed_ = Emplace(@, k_frame_count_to_write, itm_data) ]
      ELSE [ md EXCEPT !.write_queue_ = Append(@, itm_data),
                       !.sends = IF initiate_write
                                 THEN DoWrite(@, Append(md.write_queue_, itm_data))
                                 ELSE @ ]

\* config::Items().LOCAL_NODE_ID, and a node id that is not the local one
LOCAL_NODE_ID == 9
OtherNode == 5

\* ItmDelay::get: the delay of the route's own entry, or else the default
ItmDelayGet(itm_delay, source_node, dest_node) ==
  LET own == { r \in itm_delay.route_delays :
                 r.source_node = source_node /\ r.dest_node = dest_node }
  IN  IF own = {} THEN itm_delay.default_delay ELSE (CHOOSE r \in own : TRUE).delay

\* a SendDownlinkITM that looks the delay up for the destination node alone
SendDownlinkITMForDefaultDelay(md, id, dest_node) ==
  SendDownlinkITMOn(md, id, md_k_frame_count_, itm_delay_.default_delay)

\* MDInterface::SendDownlinkITM for the ITM id with the destination node
\* dest_node in its header: the delay is that of the route from the local node
SendDownlinkITMFor(md, id, dest_node) ==
  SendDownlinkITMOn(md, id, md_k_frame_count_,
                    ItmDelayGet(itm_delay_, LOCAL_NODE_ID, dest_node))

\* MDInterface::SendDownlinkITM called for a buffer of its own, whose route
\* has the delay k_frame_to_delay
SendDownlinkITM(k_frame_to_delay) ==
  /\ started
  /\ next_id' = next_id + 1
  /\ LET md == SendDownlinkITMOn(MDMembers, next_id, md_k_frame_count_, k_frame_to_delay)
     IN  /\ md_write_queue_' = md.write_queue_
         /\ md_write_delayed_' = md.write_delayed_
         /\ md_sends' = md.sends
  /\ UNCHANGED << started, VMW_COMMON_MAX_PACKETS_PER_TIMESLOT, routerVars, md_k_frame_count_,
                  md_socket_open, vmwVars, kbaVars, sokfVars >>

\* the loop of MDInterface::OnSOKF: the write queue after the due packets
\* were pushed to its back
MDDrain(write_queue, write_delayed, k_frame_count) ==
  write_queue \o [ i \in 1..DueCount(write_delayed, k_frame_count) |->
                    write_delayed[i].second ]

\* an OnSOKF that calls DoWrite whenever the queue is not empty after the loop,
\* without the write_queue_empty_at_start test
MDOnSOKFAlwaysWrite ==
  /\ LET k_frame_count == Add32(md_k_frame_count_, One32)
     IN  /\ md_k_frame_count_' = k_frame_count
         /\ md_write_queue_' = MDDrain(md_write_queue_, md_write_delayed_, k_frame_count)
         /\ md_write_delayed_' = RemainingDelayed(md_write_delayed_, k_frame_count)
         /\ md_sends' = IF md_write_queue_' # << >>
                        THEN DoWrite(md_sends, md_write_queue_')
                        ELSE md_sends
  /\ UNCHANGED md_socket_open

\* MDInterface::OnSOKF
MDOnSOKF ==
  /\ LET k_frame_count == Add32(md_k_frame_count_, One32)
         write_queue_empty_at_start == md_write_queue_ = << >>
     IN  /\ md_k_frame_count_' = k_frame_count
         /\ md_write_queue_' = MDDrain(md_write_queue_, md_write_delayed_, k_frame_count)
         /\ md_write_delayed_' = RemainingDelayed(md_write_delayed_, k_frame_count)
         /\ md_sends' = IF write_queue_empty_at_start /\ md_write_queue_' # << >>
                        THEN DoWrite(md_sends, md_write_queue_')
                        ELSE md_sends
  /\ UNCHANGED md_socket_open

\* MDInterface::OnWriteComplete
MDOnWriteComplete(ec) ==
  /\ md_sends # << >>
  /\ ec = "success" => md_socket_open
  /\ md_write_queue_' = WriteCompleteQueue(md_write_queue_, ec)
  /\ md_sends' = WriteCompleteSends(md_sends, md_write_queue_, ec)
  /\ md_socket_open' = IF ec # "success" THEN FALSE ELSE md_socket_open
  /\ send_errors' = WriteCompleteErrors(send_errors, "MDInterface", ec)
  /\ UNCHANGED << started, VMW_COMMON_MAX_PACKETS_PER_TIMESLOT, readerVars, next_id, md_k_frame_count_,
                  md_write_delayed_, vmwVars, kbaVars, sokfVars >>


(***************************************************************************)
(* VMWInterface                                                            *)
(***************************************************************************)
\* a SendUplinkITM that clips the last byte of every mission-data ITM,
\* variable-size ones too
UseThisItmBufSizeClipVitm(itm) ==
  IF IsMissionDataPayloadType(itm.payload_type) THEN itm.size - 1 ELSE itm.size

\* the ITM bytes SendUplinkITM keeps: a fixed-size mission-data ITM loses its last byte
UseThisItmBufSize(itm) ==
  IF ~itm.vitm /\ IsMissionDataPayloadType(itm.payload_type)
  THEN itm.size - 1
  ELSE itm.size

\* VMWUplinkMPLSPacket::Create for SendUplinkITM: [packet_size][mpls_header][itm].
\* packet_size is the uint16_t written in front, size the byte count of the
\* three buffers, vitm the VITM flag of the ITM header inside and
\* vitm_in_bounds whether a VITM's payload size lies within the bounds; fn and
\* buf_size are history: the function that prepared the packet and the length
\* of the buffer it was given
UplinkPacketFromITM(itm, id, k_frame_count, k_frame_to_delay) ==
  [ id |-> id, payload_type |-> itm.payload_type,
    packet_size |-> (MPLS_HEADER_SIZE + UseThisItmBufSize(itm)) % 65536,
    size |-> PACKET_SIZE_FIELD + MPLS_HEADER_SIZE + UseThisItmBufSize(itm),
    vitm |-> itm.vitm, vitm_in_bounds |-> itm.vitm_in_bounds,
    fn |-> "SendUplinkITM", buf_size |-> itm.size,
    enq_frame |-> k_frame_count, enq_delay |-> k_frame_to_delay ]

\* the body of VMWInterface::SendUplinkITM for the buffer id: always into the
\* delayed map; k_frame_to_delay is what itm_delay_.get returned
SendUplinkITMOn(itm, id, k_frame_to_delay) ==
  LET k_frame_count_to_write == Add32(vmw_k_frame_count_, k_frame_to_delay)
  IN  vmw_write_delayed_' =
        Emplace(vmw_write_delayed_, k_frame_count_to_write,
                UplinkPacketFromITM(itm, id, vmw_k_frame_count_, k_frame_to_delay))

\* a SendUplinkITM that treats a delay of 0 as MDInterface::SendDownlinkITM
\* does: the packet goes onto the write queue as a batch of its own and the
\* send is initiated if the queue was empty
SendUplinkITMDirect(itm, k_frame_to_delay) ==
  /\ started
  /\ next_id' = next_id + 1
  /\ IF Less32(Zero32, k_frame_to_delay)
     THEN /\ SendUplinkITMOn(itm, next_id, k_frame_to_delay)
          /\ UNCHANGED << vmw_write_queue_, vmw_sends >>
     ELSE /\ vmw_write_queue_' =
               Append(vmw_write_queue_,
                      BuildMessageBytes(IF IsMissionDataPayloadType(itm.payload_type)
                                        THEN "DP" ELSE "CP",
                                        << UplinkPacketFromITM(itm, next_id, vmw_k_frame_count_,
                                                               k_frame_to_delay) >>))
          /\ vmw_sends' = IF vmw_write_queue_ = << >>
                          THEN DoWrite(vmw_sends, vmw_write_queue_')
                          ELSE vmw_sends
          /\ UNCHANGED vmw_write_delayed_
  /\ UNCHANGED << started, VMW_COMMON_MAX_PACKETS_PER_TIMESLOT, routerVars, vmw_k_frame_count_,
                  vmw_socket_open, vmw_drained, vmw_policy_drops, tosv_applied,
                  mdVars, kbaVars, sokfVars >>

\* VMWInterface::SendUplinkITM called for a buffer of its own
SendUplinkITM(itm, k_frame_to_delay) ==
  /\ started
  /\ next_id' = next_id + 1
  /\ SendUplinkITMOn(itm, next_id, k_frame_to_delay)
  /\ UNCHANGED << started, VMW_COMMON_MAX_PACKETS_PER_TIMESLOT, routerVars, vmw_k_frame_count_,
                  vmw_write_queue_, vmw_socket_open, vmw_sends, vmw_drained,
                  vmw_policy_drops, tosv_applied,
                  mdVars, kbaVars, sokfVars >>

\* VMWUplinkMPLSPacket::Create for SendUplinkMPLSPacket: [packet_size][mpls packet]
UplinkPacketFromMPLS(mpls, id, k_frame_count, k_frame_to_delay) ==
  [ id |-> id, payload_type |-> mpls.payload_type,
    packet_size |-> mpls.size % 65536,
    size |-> PACKET_SIZE_FIELD + mpls.size,
    vitm |-> mpls.vitm, vitm_in_bounds |-> mpls.vitm_in_bounds,
    fn |-> "SendUplinkMPLSPacket", buf_size |-> mpls.size,
    enq_frame |-> k_frame_count, enq_delay |-> k_frame_to_delay ]

\* VMWInterface::SendUplinkMPLSPacket: always into the delayed map
SendUplinkMPLSPacket(mpls, k_frame_to_delay) ==
  /\ started
  /\ next_id' = next_id + 1
  /\ LET k_frame_count_to_write == Add32(vmw_k_frame_count_, k_frame_to_delay)
     IN  vmw_write_delayed_' =
           Emplace(vmw_write_delayed_, k_frame_count_to_write,
                   UplinkPacketFromMPLS(mpls, next_id, vmw_k_frame_count_, k_frame_to_delay))
  /\ UNCHANGED << started, VMW_COMMON_MAX_PACKETS_PER_TIMESLOT, routerVars, vmw_k_frame_count_,
                  vmw_write_queue_, vmw_socket_open, vmw_sends, vmw_drained,
                  vmw_policy_drops, tosv_applied,
                  mdVars, kbaVars, sokfVars >>

\* VMWUplinkMessage::Create(Destination::CP, passthru_msg_buf)
PassThroughMessage(id) ==
  [ destination |-> "CP", kind |-> "passthru", packets |-> << >>, id |-> id ]

\* the body of VMWInterface::SendUplinkPassThroughMessage for the buffer id
SendUplinkPassThroughMessageOn(id) ==
  LET initiate_write == vmw_write_queue_ = << >>
  IN  /\ vmw_write_queue_' = Append(vmw_write_queue_, PassThroughMessage(id))
      /\ vmw_sends' = IF initiate_write
                      THEN DoWrite(vmw_sends, vmw_write_queue_')
                      ELSE vmw_sends

\* VMWInterface::SendUplinkPassThroughMessage called for a buffer of its own
SendUplinkPassThroughMessage ==
  /\ started
  /\ next_id' = next_id + 1
  /\ SendUplinkPassThroughMessageOn(next_id)
  /\ UNCHANGED << started, VMW_COMMON_MAX_PACKETS_PER_TIMESLOT, routerVars, vmw_k_frame_count_,
                  vmw_write_delayed_, vmw_socket_open, vmw_drained, vmw_policy_drops, tosv_applied,
                  mdVars, kbaVars, sokfVars >>

\* the delayed packets not of a mission-data type that the next SOKF makes due:
\* the ones the toSv drop policy is asked about
PolicyCandidates ==
  LET due == DueEntries(vmw_write_delayed_, Add32(vmw_k_frame_count_, One32))
  IN  { due[i].second.id : i \in { j \in 1..Len(due) :
                                     ~IsMissionDataPayloadType(due[j].second.payload_type) } }

\* VMWInterface::OnSOKF; dropped are the packets the toSv drop policy drops
VMWOnSOKF(dropped) ==
  /\ LET k_frame_count == Add32(vmw_k_frame_count_, One32)
         write_queue_empty_at_start == vmw_write_queue_ = << >>
     IN  /\ vmw_k_frame_count_' = k_frame_count
         /\ \E message_builder \in
                { HandleWriteDelayed(vmw_write_queue_, vmw_write_delayed_, k_frame_count,
                                     dropped, VMW_COMMON_MAX_PACKETS_PER_TIMESLOT) } :
              /\ vmw_write_queue_' = message_builder.write_queue_
              /\ tosv_applied' = message_builder.to_sv_applied
         /\ vmw_write_delayed_' = RemainingDelayed(vmw_write_delayed_, k_frame_count)
         /\ vmw_drained' = DueEntries(vmw_write_delayed_, k_frame_count)
         /\ vmw_policy_drops' = dropped
         /\ vmw_sends' = IF write_queue_empty_at_start /\ vmw_write_queue_' # << >>
                         THEN DoWrite(vmw_sends, vmw_write_queue_')
                         ELSE vmw_sends
  /\ UNCHANGED vmw_socket_open

\* VMWInterface::OnWriteComplete
VMWOnWriteComplete(ec) ==
  /\ vmw_sends # << >>
  /\ ec = "success" => vmw_socket_open
  /\ vmw_write_queue_' = WriteCompleteQueue(vmw_write_queue_, ec)
  /\ vmw_sends' = WriteCompleteSends(vmw_sends, vmw_write_queue_, ec)
  /\ vmw_socket_open' = IF ec # "success" THEN FALSE ELSE vmw_socket_open
  /\ send_errors' = WriteCompleteErrors(send_errors, "VMWInterface", ec)
  /\ UNCHANGED << started, VMW_COMMON_MAX_PACKETS_PER_TIMESLOT, readerVars, next_id, vmw_k_frame_count_,
                  vmw_write_delayed_, vmw_drained, vmw_policy_drops, tosv_applied,
                  mdVars, kbaVars, sokfVars >>

(***************************************************************************)
(* MPLSInterface (the KBA endpoint)                                        *)
(***************************************************************************)
\* the body of MPLSInterface::SendDownlinkPassThroughMessage for the buffer id
SendDownlinkPassThroughMessageOn(id) ==
  LET initiate_write == kba_write_queue_ = << >>
  IN  /\ kba_write_queue_' = Append(kba_write_queue_, [ id |-> id ])
      /\ kba_sends' = IF initiate_write
                      THEN DoWrite(kba_sends, kba_write_queue_')
                      ELSE kba_sends

\* MPLSInterface::SendDownlinkPassThroughMessage called for a buffer of its own
SendDownlinkPassThroughMessage ==
  /\ started
  /\ next_id' = next_id + 1
  /\ SendDownlinkPassThroughMessageOn(next_id)
  /\ UNCHANGED << started, VMW_COMMON_MAX_PACKETS_PER_TIMESLOT, routerVars, kba_socket_open,
                  mdVars, vmwVars, sokfVars >>

\* MPLSInterface::OnWriteComplete
MPLSOnWriteComplete(ec) ==
  /\ kba_sends # << >>
  /\ ec = "success" => kba_socket_open
  /\ kba_write_queue_' = WriteCompleteQueue(kba_write_queue_, ec)
  /\ kba_sends' = WriteCompleteSends(kba_sends, kba_write_queue_, ec)
  /\ kba_socket_open' = IF ec # "success" THEN FALSE ELSE kba_socket_open
  /\ send_errors' = WriteCompleteErrors(send_errors, "MPLSInterface", ec)
  /\ UNCHANGED << started, VMW_COMMON_MAX_PACKETS_PER_TIMESLOT, readerVars, next_id,
                  mdVars, vmwVars, sokfVars >>

(***************************************************************************)
(* SOKFInterface                                                           *)
(***************************************************************************)
\* a validation that does not look at the kframe offset
SokfValidNoOffsetCheck(dg) ==
  /\ dg.id_ok
  /\ dg.msg_len = SOKF_SIZE

\* the three validation checks of HandleReadData
SokfValid(dg) ==
  /\ dg.id_ok
  /\ dg.msg_len = SOKF_SIZE
  /\ ~(dg.kframe_offset > MAX_K_FRAME_OFFSET)

\* a num_kframes_elapsed that takes an equal offset for an advance of zero
NumKframesElapsedGeq(kframe_offset, prev_kframe_offset) ==
  ( IF kframe_offset >= prev_kframe_offset
    THEN kframe_offset - prev_kframe_offset
    ELSE (NUM_K_FRAME_OFFSETS - prev_kframe_offset) + kframe_offset ) % 256

\* num_kframes_elapsed, a uint8_t
NumKframesElapsed(kframe_offset, prev_kframe_offset) ==
  ( IF kframe_offset > prev_kframe_offset
    THEN kframe_offset - prev_kframe_offset
    ELSE (NUM_K_FRAME_OFFSETS - prev_kframe_offset) + kframe_offset ) % 256

\* the part of HandleReadData after the callback: synchronisation and miss accounting
SokfAccount(kframe_offset) ==
  /\ prev_kframe_offset_' = kframe_offset
  /\ synchronizing_' = FALSE
  /\ TotalSokfMissed' =
       IF synchronizing_
       THEN TotalSokfMissed
       ELSE LET num_kframes_elapsed == NumKframesElapsed(kframe_offset, prev_kframe_offset_)
            IN  IF num_kframes_elapsed > 1
                THEN TotalSokfMissed + (num_kframes_elapsed - 1)
                ELSE TotalSokfMissed

\* a callback that notifies the MD interface first and the TPN interface last
SokfCallbackMDFirst(dropped) ==
  /\ sokf_notified' = << "md_interface_", "vmw_interface_", "tpn_interface_" >>
  /\ MDOnSOKF
  /\ VMWOnSOKF(dropped)

\* the callback the DataRouter registers: TPN OnSOKF, VMW OnSOKF, then MD OnSOKF
\* (the TPN interface keeps no state that is modelled here)
SokfCallback(dropped) ==
  /\ sokf_notified' = << "tpn_interface_", "vmw_interface_", "md_interface_" >>
  /\ VMWOnSOKF(dropped)
  /\ MDOnSOKF

\* an OnReadComplete whose HandleReadData notifies the interfaces before it
\* validates the message
SOKFOnReadCompleteCallbackFirst(ec, dg, dropped) ==
  /\ started
  /\ sokf_read_posted
  /\ ec = "success" => sokf_socket_open
  /\ UNCHANGED << started, VMW_COMMON_MAX_PACKETS_PER_TIMESLOT, routerVars, next_id, kbaVars >>
  /\ IF ec # "success"
     THEN /\ sokf_socket_open' = FALSE
          /\ sokf_read_posted' = FALSE
          /\ UNCHANGED << synchronizing_, prev_kframe_offset_, TotalSokfMissed, valid_sokfs,
                          sokf_last_dg, sokf_notified, mdVars, vmwVars >>
     ELSE IF dg.bytes # SOKF_SIZE
     THEN /\ UNCHANGED << sokfVars, mdVars, vmwVars >>
     ELSE IF ~SokfValid(dg)
     THEN /\ SokfCallback(dropped)
          /\ sokf_socket_open' = FALSE
          /\ sokf_last_dg' = dg
          /\ UNCHANGED << sokf_read_posted, synchronizing_, prev_kframe_offset_,
                          TotalSokfMissed, valid_sokfs >>
     ELSE /\ SokfCallback(dropped)
          /\ SokfAccount(dg.kframe_offset)
          /\ valid_sokfs' = Append(valid_sokfs, dg.kframe_offset)
          /\ sokf_last_dg' = dg
          /\ UNCHANGED << sokf_socket_open, sokf_read_posted >>

\* SOKFInterface::OnReadComplete with HandleReadData
SOKFOnReadComplete(ec, dg, dropped) ==
  /\ started
  /\ sokf_read_posted
  /\ ec = "success" => sokf_socket_open
  /\ UNCHANGED << started, VMW_COMMON_MAX_PACKETS_PER_TIMESLOT, routerVars, next_id, kbaVars >>
  /\ IF ec # "success"
     THEN \* error: close the socket and post no further receive
          /\ sokf_socket_open' = FALSE
          /\ sokf_read_posted' = FALSE
          /\ UNCHANGED << synchronizing_, prev_kframe_offset_, TotalSokfMissed, valid_sokfs,
                          sokf_last_dg, sokf_notified, mdVars, vmwVars >>
     ELSE IF dg.bytes # SOKF_SIZE
     THEN \* ignored with a warning; DoRead
          /\ UNCHANGED << sokfVars, mdVars, vmwVars >>
     ELSE IF ~SokfValid(dg)
     THEN \* fatal log, CancelAndCloseSocket, return; then DoRead on the closed socket
          /\ sokf_socket_open' = FALSE
          /\ sokf_last_dg' = dg
          /\ UNCHANGED << sokf_read_posted, synchronizing_, prev_kframe_offset_,
                          TotalSokfMissed, valid_sokfs, sokf_notified, mdVars, vmwVars >>
     ELSE /\ SokfCallback(dropped)
          /\ SokfAccount(dg.kframe_offset)
          /\ valid_sokfs' = Append(valid_sokfs, dg.kframe_offset)
          /\ sokf_last_dg' = dg
          /\ UNCHANGED << sokf_socket_open, sokf_read_posted >>

\* the SOKF datagram handler with its inputs: an error, or a datagram and the
\* decisions of the toSv drop policy for the packets it makes due
SOKFReceive(datagrams) ==
  \/ \E ec \in ErrorCodes \ {"success"} : SOKFOnReadComplete(ec, CHOOSE dg \in datagrams : TRUE, {})
  \/ \E dg \in datagrams :
       \E dropped \in (IF dg.bytes = SOKF_SIZE /\ SokfValid(dg)
                       THEN SUBSET PolicyCandidates ELSE {{}}) :
         SOKFOnReadComplete("success", dg, dropped)

Next ==
  \/ Start_i
  \/ next_id <= MaxPackets /\ \E d \in Delays : SendDownlinkITM(d)
  \/ next_id <= MaxPackets /\ \E itm \in UplinkITMs, d \in Delays : SendUplinkITM(itm, d)
  \/ next_id <= MaxPackets /\ \E mpls \in UplinkMPLSPackets, d \in Delays :
                                SendUplinkMPLSPacket(mpls, d)
  \/ next_id <= MaxPackets /\ SendUplinkPassThroughMessage
  \/ next_id <= MaxPackets /\ SendDownlinkPassThroughMessage
  \/ \E ec \in SendOutcomes : MDOnWriteComplete(ec)
  \/ \E ec \in SendOutcomes : VMWOnWriteComplete(ec)
  \/ \E ec \in SendOutcomes : MPLSOnWriteComplete(ec)
  \/ Len(valid_sokfs) < MaxFrame /\ SOKFReceive(SokfDatagrams)

Spec == Init /\ [][Next]_vars

(***************************************************************************)
(* SpecSokf: the timing endpoint fed with every kframe offset              *)
(***************************************************************************)
NextSokf ==
  \/ Start_i
  \/ Len(valid_sokfs) < MaxSokf /\ SOKFReceive(SokfDatagramsAllOffsets)

SpecSokf == Init /\ [][NextSokf]_vars

(***************************************************************************)
(* SpecFrames: the offsets of scenario S5 and the malformed datagrams,     *)
(* next to traffic on the MD and the VMW endpoint                          *)
(***************************************************************************)
NextFrames ==
  \/ Start_i
  \/ next_id <= MaxFramesPackets /\ \E d \in { Zero32, One32 } : SendDownlinkITM(d)
  \/ next_id <= MaxFramesPackets /\ \E itm \in UplinkITMs : SendUplinkITM(itm, One32)
  \/ \E ec \in SendOutcomes : MDOnWriteComplete(ec)
  \/ \E ec \in SendOutcomes : VMWOnWriteComplete(ec)
  \/ Len(valid_sokfs) < MaxCounted /\ SOKFReceive(SokfDatagramsFrames)

SpecFrames == Init /\ [][NextFrames]_vars

(***************************************************************************)
(* SpecBulk: scenario S4.  Fixed-size control-plane ITMs with no route     *)
(* delay pile up in the VMW delayed map during frame 0 and one SOKF hands  *)
(* them to the builder; the toSv policy drops none.                        *)
(***************************************************************************)
BulkITM ==
  [ payload_type |-> 2, vitm |-> FALSE, vitm_in_bounds |-> FALSE, size |-> FIXED_ITM_SIZE ]
BulkSokf == [ bytes |-> SOKF_SIZE, id_ok |-> TRUE, msg_len |-> SOKF_SIZE, kframe_offset |-> 0 ]

NextBulk ==
  \/ Start_i
  \/ next_id <= MaxBulk /\ valid_sokfs = << >> /\ SendUplinkITM(BulkITM, Zero32)
  \/ valid_sokfs = << >> /\ SOKFOnReadComplete("success", BulkSokf, {})

InitBulk == InitWith(BulkTimeslotLimits)

SpecBulk == InitBulk /\ [][NextBulk]_vars

(***************************************************************************)
(* SpecOrder: fixed-size data-plane ITMs and then fixed-size control-plane *)
(* ITMs, none with a route delay, pile up in the VMW delayed map during    *)
(* frame 0 and one SOKF hands them to the builder in this order; no packet *)
(* count reaches VMW_COMMON_MAX_PACKETS_PER_TIMESLOT.                      *)
(***************************************************************************)
DataITM ==
  [ payload_type |-> 0, vitm |-> FALSE, vitm_in_bounds |-> FALSE, size |-> FIXED_ITM_SIZE ]

InitOrder == InitWith({ 1000 })

NextOrder ==
  \/ Start_i
  \/ next_id <= MaxOrderData /\ valid_sokfs = << >> /\ SendUplinkITM(DataITM, Zero32)
  \/ /\ MaxOrderData < next_id
     /\ next_id <= MaxOrderData + MaxOrderControl
     /\ valid_sokfs = << >>
     /\ SendUplinkITM(BulkITM, Zero32)
  \/ valid_sokfs = << >> /\ SOKFOnReadComplete("success", BulkSokf, {})
  \/ VMWOnWriteComplete("success")

SpecOrder == InitOrder /\ [][NextOrder]_vars

(***************************************************************************)
(* The read side of the VMW and the MPLS interface, and the DataRouter     *)
(* methods their handlers call                                             *)
(***************************************************************************)
\* sizeof(vmw_message_header_t): message id and message length
VMW_MESSAGE_HEADER_SIZE == 8
\* sizeof(uint16_t), the "number of MPLS packets" field
NUM_PACKETS_SIZE == 2
\* sizeof(MsgTypes::itm_header_t)
ITM_HEADER_SIZE == 5
MIN_MPLS_PACKET_SIZE == MPLS_HEADER_SIZE + ITM_HEADER_SIZE
\* MPLS header, ITM header and fixed ITM payload: an ITM is 48 bytes
MPLS_FIXED_ITM_SIZE == MPLS_HEADER_SIZE + FIXED_ITM_SIZE

\* node ids of the configuration: the HPL node, two nodes whose mission data
\* bypasses the TPN, and a node whose mission data does not
HPL_NODE_ID == 7
BypassNode == 1
TpnNode == 2
SecondBypassNode == 3
MISSION_DATA_BYPASS_TPN ==
  [ n \in { HPL_NODE_ID, BypassNode, TpnNode, SecondBypassNode } |->
      n \in { BypassNode, SecondBypassNode } ]

\* a route delay entry of the ItmDelay table
RouteDelay(source_node, dest_node, delay) ==
  [ source_node |-> source_node, dest_node |-> dest_node, delay |-> delay ]
\* ItmDelay tables: the default one, and one that delays the route from the
\* local node to the bypass node by a frame
ItmDelayTables ==
  { DefaultItmDelay,
    [ DefaultItmDelay EXCEPT !.route_delays =
        { RouteDelay(LOCAL_NODE_ID, BypassNode, One32) } ] }

\* a sub-packet of a VMW downlink message: the value of its length field, the
\* VITM bit, payload type and destination node of its ITM header, and, for a
\* VITM, whether the length lies within MIN_MPLS_VITM_SIZE..MAX_MPLS_VITM_SIZE
FixedSub(payload_type, dstnid) ==
  [ len |-> MPLS_FIXED_ITM_SIZE, vitm |-> FALSE, vitm_in_bounds |-> FALSE,
    payload_type |-> payload_type, dstnid |-> dstnid ]
VitmSub(len, vitm_in_bounds, dstnid) ==
  [ len |-> len, vitm |-> TRUE, vitm_in_bounds |-> vitm_in_bounds,
    payload_type |-> 4, dstnid |-> dstnid ]
ShortSub(len, vitm) ==
  [ len |-> len, vitm |-> vitm, vitm_in_bounds |-> vitm,
    payload_type |-> 2, dstnid |-> TpnNode ]

\* a VMW datagram: bytes received, the message_length and num_packets fields,
\* and the sub-packets its bytes hold after them (the last one cut short when
\* size is too small); no sample holds bytes of a further sub-packet
VmwDatagram(size, message_length, num_packets, subs) ==
  [ size |-> size, message_length |-> message_length, num_packets |-> num_packets,
    subs |-> subs ]

\* 10 bytes, and 2 + len for each sub-packet
RECURSIVE WireSize(_)
WireSize(subs) ==
  IF subs = << >>
  THEN VMW_MESSAGE_HEADER_SIZE + NUM_PACKETS_SIZE
  ELSE WireSize(Tail(subs)) + MPLS_NUM_BYTES_SIZE + Head(subs).len

\* a datagram that holds exactly the sub-packets subs
WellFormed(subs) == VmwDatagram(WireSize(subs), WireSize(subs), Len(subs), subs)

\* the datagram of scenario S1: 25 bytes, message_length 25, num_packets 2 and
\* sub-packets with a length field of 9
S1Datagrams ==
  { VmwDatagram(25, 25, 2, << ShortSub(9, v), ShortSub(9, v) >>) : v \in BOOLEAN }

VmwDatagrams ==
  { WellFormed(<< FixedSub(0, BypassNode), FixedSub(2, TpnNode) >>),
    WellFormed(<< FixedSub(2, HPL_NODE_ID), FixedSub(0, TpnNode) >>),
    WellFormed(<< FixedSub(2, HPL_NODE_ID) >>),
    WellFormed(<< VitmSub(30, TRUE, TpnNode) >>),
    \* control data for the bypass node, mission data of type 3 for it
    WellFormed(<< FixedSub(2, BypassNode), FixedSub(3, BypassNode) >>),
    \* two sub-packets of 9 bytes in the 32 bytes they take
    WellFormed(<< ShortSub(9, TRUE), ShortSub(9, TRUE) >>),
    \* one extraneous byte after the last sub-packet
    VmwDatagram(43, 43, 1, << VitmSub(30, TRUE, TpnNode) >>),
    \* a VITM outside the size bounds
    WellFormed(<< VitmSub(30, FALSE, TpnNode) >>),
    \* the buffer size differs from message_length
    VmwDatagram(118, 100, 2, << FixedSub(0, BypassNode), FixedSub(2, TpnNode) >>),
    \* a sub-packet length below 9, after a sub-packet that is in order
    WellFormed(<< FixedSub(0, BypassNode), ShortSub(8, FALSE) >>),
    \* no sub-packet at all, fewer than 8 bytes, and no byte
    WellFormed(<< >>),
    VmwDatagram(7, 7, 0, << >>),
    VmwDatagram(0, 0, 0, << >>) }
  \cup S1Datagrams

\* a MineMPLSPacket that does not test whether the remainder holds the packet
MineMPLSPacketNoRemainderCheck(sub, remainder) ==
  IF remainder < MPLS_NUM_BYTES_SIZE THEN 0
  ELSE IF sub.len < MIN_MPLS_PACKET_SIZE THEN 0
  ELSE IF sub.vitm
       THEN (IF sub.vitm_in_bounds THEN MPLS_NUM_BYTES_SIZE + sub.len ELSE 0)
       ELSE (IF sub.len # MPLS_FIXED_ITM_SIZE THEN 0 ELSE MPLS_NUM_BYTES_SIZE + sub.len)

\* VMWMessageParser::MineMPLSPacket: the bytes it takes from the remainder,
\* the length field included, or 0 when it returns an empty buffer
MineMPLSPacket(sub, remainder) ==
  IF remainder < MPLS_NUM_BYTES_SIZE THEN 0
  ELSE IF sub.len < MIN_MPLS_PACKET_SIZE THEN 0
  ELSE IF remainder - MPLS_NUM_BYTES_SIZE < sub.len THEN 0
  ELSE IF sub.vitm
       THEN (IF sub.vitm_in_bounds THEN MPLS_NUM_BYTES_SIZE + sub.len ELSE 0)
       ELSE (IF sub.len # MPLS_FIXED_ITM_SIZE THEN 0 ELSE MPLS_NUM_BYTES_SIZE + sub.len)

\* a loop that keeps what it has mined when a later sub-packet fails
RECURSIVE MineMPLSPacketsKeepMined(_, _, _, _)
MineMPLSPacketsKeepMined(dg, i, remainder, mpls_buffers) ==
  IF i > dg.num_packets THEN mpls_buffers
  ELSE IF i > Len(dg.subs) THEN mpls_buffers
  ELSE LET taken == MineMPLSPacket(dg.subs[i], remainder)
       IN  IF taken = 0
           THEN mpls_buffers
           ELSE MineMPLSPacketsKeepMined(dg, i + 1, remainder - taken,
                                         Append(mpls_buffers, i))

\* the loop of VMWMessageParser::Process from sub-packet i on: the indices of
\* the sub-packets kept in mpls_buffers_, or << >> when one of them fails
RECURSIVE MineMPLSPackets(_, _, _, _)
MineMPLSPackets(dg, i, remainder, mpls_buffers) ==
  IF i > dg.num_packets THEN mpls_buffers
  ELSE IF i > Len(dg.subs) THEN << >>
  ELSE LET taken == MineMPLSPacket(dg.subs[i], remainder)
       IN  IF taken = 0
           THEN << >>
           ELSE MineMPLSPackets(dg, i + 1, remainder - taken, Append(mpls_buffers, i))

\* a Perform that does not compare the buffer size with message_length
PerformNoLengthCheck(dg) ==
  IF dg.size < VMW_MESSAGE_HEADER_SIZE THEN << >>
  ELSE IF dg.size - VMW_MESSAGE_HEADER_SIZE < NUM_PACKETS_SIZE THEN << >>
  ELSE MineMPLSPackets(dg, 1, dg.size - VMW_MESSAGE_HEADER_SIZE - NUM_PACKETS_SIZE, << >>)

\* VMWMessageParser::Perform: Process and TakeMPLSBuffers, or {} when Process fails
Perform(dg) ==
  IF dg.size < VMW_MESSAGE_HEADER_SIZE THEN << >>
  ELSE IF dg.size # dg.message_length THEN << >>
  ELSE IF dg.size - VMW_MESSAGE_HEADER_SIZE < NUM_PACKETS_SIZE THEN << >>
  ELSE MineMPLSPackets(dg, 1, dg.size - VMW_MESSAGE_HEADER_SIZE - NUM_PACKETS_SIZE, << >>)

\* the bytes of remainder_buf_ when the loop of Process turns to sub-packet i,
\* the sub-packets before it having been mined
RECURSIVE RemainderBefore(_, _)
RemainderBefore(dg, i) ==
  IF i = 1
  THEN dg.size - VMW_MESSAGE_HEADER_SIZE - NUM_PACKETS_SIZE
  ELSE RemainderBefore(dg, i - 1)
         - MineMPLSPacket(dg.subs[i - 1], RemainderBefore(dg, i - 1))

\* VMWMessageParser::Process: whether it returns true
Process(dg) ==
  /\ dg.size >= VMW_MESSAGE_HEADER_SIZE
  /\ dg.size = dg.message_length
  /\ dg.size - VMW_MESSAGE_HEADER_SIZE >= NUM_PACKETS_SIZE
  /\ Len(MineMPLSPackets(dg, 1, dg.size - VMW_MESSAGE_HEADER_SIZE - NUM_PACKETS_SIZE,
                         << >>)) = dg.num_packets

\* the levels of the messages Process and the functions it calls log, every
\* level being enabled: an error where MineVMWMessageHeader, the comparison
\* with message_length, MineInteger or MineMPLSPacket fails, a warning for
\* extraneous bytes after the last sub-packet
ProcessLog(dg) ==
  IF dg.size < VMW_MESSAGE_HEADER_SIZE THEN << "error" >>
  ELSE IF dg.size # dg.message_length THEN << "error" >>
  ELSE IF dg.size - VMW_MESSAGE_HEADER_SIZE < NUM_PACKETS_SIZE THEN << "error" >>
  ELSE IF ~Process(dg) THEN << "error" >>
  ELSE IF RemainderBefore(dg, dg.num_packets + 1) # 0 THEN << "warn" >>
  ELSE << >>

\* a const_buffer within the message: the offset of its first byte and its size
ConstBuffer(first, size) == [ first |-> first, size |-> size ]

\* an mpls_buf that begins at the length field
MplsBufWithLengthField(dg, i) ==
  ConstBuffer(dg.size - RemainderBefore(dg, i),
              MineMPLSPacket(dg.subs[i], RemainderBefore(dg, i)))

\* the mpls_buf MineMPLSPacket returns for sub-packet i: the first
\* mpls_packet_length bytes of the remainder after the length field
MplsBuf(dg, i) ==
  ConstBuffer(dg.size - RemainderBefore(dg, i) + MPLS_NUM_BYTES_SIZE,
              MineMPLSPacket(dg.subs[i], RemainderBefore(dg, i)) - MPLS_NUM_BYTES_SIZE)

\* VMWMessageParser::Perform as the vector of const_buffers it returns
PerformBuffers(dg) ==
  IF ~Process(dg) THEN << >>
  ELSE [ n \in 1..Len(Perform(dg)) |-> MplsBuf(dg, Perform(dg)[n]) ]

\* a call of VMWMessageParser::Perform with the message dg
ParserPerform(dg) ==
  /\ ~parser_called
  /\ parser_called' = TRUE
  /\ parser_input' = dg
  /\ parser_result' = PerformBuffers(dg)
  /\ parser_log' = ProcessLog(dg)
  /\ UNCHANGED << started, VMW_COMMON_MAX_PACKETS_PER_TIMESLOT, next_id, mdVars, vmwVars,
                  kbaVars, sokfVars, dest_valid, TotalInvalidMplsPacketsDiscarded,
                  TotalMplsPacketsConverted, vmw_read_posted, vmw_reads, vmw_last_dg,
                  route_calls, tpn_downlink, tosim_drops, route_outcomes, kba_read_posted,
                  kba_reads, mdReadVars, configVars, executorVars, send_errors >>

\* the record of a call of a DataRouter method for the buffer id
RouteCall(fn, id) == [ fn |-> fn, id |-> id ]

\* what one call of RouteDownlinkMPLSPacket did with the buffer id: the
\* interface it handed it to, or "return" after a drop; the bytes of the buffer
\* it handed on; the payload types tosim_drop_policies_.apply was called with
RouteOutcome(id, to, bytes, applied) ==
  [ id |-> id, to |-> to, bytes |-> bytes, applied |-> applied ]

\* a RouteDownlinkMPLSPacket that sends to the MD interface whatever the
\* payload type, for a destination node that bypasses the TPN
RouteDownlinkMPLSPacketAnyPayload(rt, sub, id, tosim_dropped) ==
  LET called == [ rt EXCEPT !.calls = Append(@, RouteCall("RouteDownlinkMPLSPacket", id)) ]
  IN  IF MISSION_DATA_BYPASS_TPN[sub.dstnid]
      THEN [ called EXCEPT !.md = SendDownlinkITMFor(@, id, sub.dstnid),
                           !.outcomes = Append(@, RouteOutcome(id, "md_interface_",
                                                 sub.len - MPLS_HEADER_SIZE, << >>)) ]
      ELSE IF id \in tosim_dropped
      THEN [ called EXCEPT !.drops = @ \cup { id },
                           !.outcomes = Append(@, RouteOutcome(id, "return", 0,
                                                               << sub.payload_type >>)) ]
      ELSE [ called EXCEPT !.tpn = Append(@, id),
                           !.outcomes = Append(@, RouteOutcome(id, "tpn_interface_", sub.len,
                                                               << sub.payload_type >>)) ]

\* DataRouter::RouteDownlinkMPLSPacket on rt = [md, tpn, calls, drops, outcomes]:
\* the MD members, the packets given to the TPN interface, the calls recorded,
\* the packets dropped and what each call did; tosim_dropped are the packets
\* for which the toSim policy says drop.  itm_buf is mpls_packet_buf without
\* its first sizeof(MPLSHeader_t) bytes.
RouteDownlinkMPLSPacket(rt, sub, id, tosim_dropped) ==
  LET called == [ rt EXCEPT !.calls = Append(@, RouteCall("RouteDownlinkMPLSPacket", id)) ]
  IN  IF MISSION_DATA_BYPASS_TPN[sub.dstnid] /\ IsMissionDataPayloadType(sub.payload_type)
      THEN [ called EXCEPT !.md = SendDownlinkITMFor(@, id, sub.dstnid),
                           !.outcomes = Append(@, RouteOutcome(id, "md_interface_",
                                                 sub.len - MPLS_HEADER_SIZE, << >>)) ]
      ELSE IF id \in tosim_dropped
      THEN [ called EXCEPT !.drops = @ \cup { id },
                           !.outcomes = Append(@, RouteOutcome(id, "return", 0,
                                                               << sub.payload_type >>)) ]
      ELSE [ called EXCEPT !.tpn = Append(@, id),
                           !.outcomes = Append(@, RouteOutcome(id, "tpn_interface_", sub.len,
                                                               << sub.payload_type >>)) ]

\* a loop that asks the router about every sub-packet, the HPL ones included
RECURSIVE RouteLoopAll(_, _, _, _, _, _)
RouteLoopAll(rt, dg, mpls_buffers, i, first_id, tosim_dropped) ==
  IF i > Len(mpls_buffers) THEN rt
  ELSE LET sub == dg.subs[mpls_buffers[i]]
           id == first_id + mpls_buffers[i]
       IN  RouteLoopAll(RouteDownlinkMPLSPacket(rt, sub, id, tosim_dropped),
                        dg, mpls_buffers, i + 1, first_id, tosim_dropped)

\* the loop of VMWInterface::HandleReadData from mpls_buffers[i] on; the
\* sub-packet with index n is the buffer first_id + n
RECURSIVE RouteLoop(_, _, _, _, _, _)
RouteLoop(rt, dg, mpls_buffers, i, first_id, tosim_dropped) ==
  IF i > Len(mpls_buffers) THEN rt
  ELSE LET sub == dg.subs[mpls_buffers[i]]
           id == first_id + mpls_buffers[i]
       IN  RouteLoop(IF sub.dstnid = HPL_NODE_ID
                     THEN rt
                     ELSE RouteDownlinkMPLSPacket(rt, sub, id, tosim_dropped),
                     dg, mpls_buffers, i + 1, first_id, tosim_dropped)

\* route_to_hpl_node after the loop
RouteToHplNode(dg, mpls_buffers) ==
  \E i \in 1..Len(mpls_buffers) : dg.subs[mpls_buffers[i]].dstnid = HPL_NODE_ID

\* DataRouter::RouteDownlinkPassThroughMessage for the datagram id
RouteDownlinkPassThroughMessage(id) ==
  IF ~dest_valid["KBA_DEST_ADDRESS"]
  THEN UNCHANGED << kba_write_queue_, kba_sends >>
  ELSE SendDownlinkPassThroughMessageOn(id)

\* a RouteUplinkPassThroughMessage without the test of CP_VMW_DEST_ADDRESS
RouteUplinkPassThroughMessageUnchecked(id) ==
  SendUplinkPassThroughMessageOn(id)

\* DataRouter::RouteUplinkPassThroughMessage for the datagram id
RouteUplinkPassThroughMessage(id) ==
  IF ~dest_valid["CP_VMW_DEST_ADDRESS"]
  THEN UNCHANGED << vmw_write_queue_, vmw_sends >>
  ELSE SendUplinkPassThroughMessageOn(id)

\* the sub-packets of dg about which the toSim drop policy is asked
TosimCandidates(dg) ==
  LET mpls_buffers == Perform(dg)
  IN  { next_id + mpls_buffers[i] : i \in
          { j \in 1..Len(mpls_buffers) :
              LET sub == dg.subs[mpls_buffers[j]]
              IN  /\ sub.dstnid # HPL_NODE_ID
                  /\ ~( MISSION_DATA_BYPASS_TPN[sub.dstnid]
                        /\ IsMissionDataPayloadType(sub.payload_type) ) } }

\* VMWInterface::OnReadComplete with HandleReadData.  The datagram is the
\* buffer next_id and its sub-packet n the buffer next_id + n.
VMWOnReadComplete(ec, dg, tosim_dropped) ==
  /\ started
  /\ vmw_read_posted
  /\ ec = "success" => vmw_socket_open
  /\ UNCHANGED << started, VMW_COMMON_MAX_PACKETS_PER_TIMESLOT, dest_valid, kba_read_posted,
                  kba_reads, mdReadVars, configVars, parserVars, executorVars, send_errors, md_k_frame_count_, md_socket_open, vmw_k_frame_count_, vmw_write_queue_,
                  vmw_write_delayed_, vmw_sends, vmw_drained, vmw_policy_drops, tosv_applied,
                  kba_socket_open, sokfVars >>
  /\ IF ec # "success"
     THEN \* error: close the socket and post no further receive
          /\ vmw_socket_open' = FALSE
          /\ vmw_read_posted' = FALSE
          /\ UNCHANGED << next_id, md_write_queue_, md_write_delayed_, md_sends,
                          kba_write_queue_, kba_sends, TotalInvalidMplsPacketsDiscarded,
                          TotalMplsPacketsConverted, vmw_reads, vmw_last_dg, route_calls,
                          tpn_downlink, tosim_drops, route_outcomes >>
     ELSE \* HandleReadData unless no byte was received; then DoRead
          /\ UNCHANGED << vmw_socket_open, vmw_read_posted >>
          /\ vmw_reads' = vmw_reads + 1
          /\ vmw_last_dg' = dg
          /\ next_id' = next_id + 1 + Len(dg.subs)
          /\ LET mpls_buffers == IF dg.size > 0 THEN Perform(dg) ELSE << >>
                 rt == RouteLoop([ md |-> MDMembers, tpn |-> << >>, calls |-> << >>,
                                   drops |-> {}, outcomes |-> << >> ],
                                 dg, mpls_buffers, 1, next_id, tosim_dropped)
                 route_to_hpl_node == RouteToHplNode(dg, mpls_buffers)
             IN  IF mpls_buffers = << >>
                 THEN /\ TotalInvalidMplsPacketsDiscarded' =
                           IF dg.size > 0
                           THEN TotalInvalidMplsPacketsDiscarded + 1
                           ELSE TotalInvalidMplsPacketsDiscarded
                      /\ route_calls' = << >>
                      /\ tpn_downlink' = << >>
                      /\ tosim_drops' = {}
                      /\ route_outcomes' = << >>
                      /\ UNCHANGED << md_write_queue_, md_write_delayed_, md_sends,
                                      kba_write_queue_, kba_sends,
                                      TotalMplsPacketsConverted >>
                 ELSE /\ md_write_queue_' = rt.md.write_queue_
                      /\ md_write_delayed_' = rt.md.write_delayed_
                      /\ md_sends' = rt.md.sends
                      /\ tpn_downlink' = rt.tpn
                      /\ tosim_drops' = rt.drops
                      /\ route_outcomes' = rt.outcomes
                      /\ IF route_to_hpl_node
                         THEN /\ RouteDownlinkPassThroughMessage(next_id)
                              /\ route_calls' =
                                   Append(rt.calls,
                                          RouteCall("RouteDownlinkPassThroughMessage", next_id))
                         ELSE /\ route_calls' = rt.calls
                              /\ UNCHANGED << kba_write_queue_, kba_sends >>
                      /\ TotalMplsPacketsConverted' = TotalMplsPacketsConverted + 1
                      /\ UNCHANGED TotalInvalidMplsPacketsDiscarded

\* the VMW datagram handler with its inputs: an error, or a datagram and the
\* decisions of the toSim drop policy
VMWReceive(datagrams) ==
  \/ \E ec \in ErrorCodes \ {"success"} :
       VMWOnReadComplete(ec, CHOOSE dg \in datagrams : TRUE, {})
  \/ \E dg \in datagrams :
       \E tosim_dropped \in SUBSET TosimCandidates(dg) :
         VMWOnReadComplete("success", dg, tosim_dropped)

\* MPLSInterface::OnReadComplete with HandleReadData; the datagram is the
\* buffer next_id
MPLSOnReadComplete(ec, bytes_transferred) ==
  /\ started
  /\ kba_read_posted
  /\ ec = "success" => kba_socket_open
  /\ UNCHANGED << started, VMW_COMMON_MAX_PACKETS_PER_TIMESLOT, dest_valid, vmw_read_posted,
                  mdReadVars, configVars, parserVars, executorVars, send_errors, TotalInvalidMplsPacketsDiscarded, TotalMplsPacketsConverted, vmw_reads,
                  vmw_last_dg, tpn_downlink, tosim_drops, route_outcomes, vmw_k_frame_count_,
                  vmw_write_delayed_,
                  vmw_socket_open, vmw_drained, vmw_policy_drops, tosv_applied, kba_write_queue_,
                  kba_sends, mdVars, sokfVars >>
  /\ IF ec # "success"
     THEN /\ kba_socket_open' = FALSE
          /\ kba_read_posted' = FALSE
          /\ UNCHANGED << next_id, kba_reads, route_calls, vmw_write_queue_, vmw_sends >>
     ELSE /\ UNCHANGED << kba_socket_open, kba_read_posted >>
          /\ kba_reads' = kba_reads + 1
          /\ next_id' = next_id + 1
          /\ IF bytes_transferred > 0
             THEN /\ RouteUplinkPassThroughMessage(next_id)
                  /\ route_calls' = << RouteCall("RouteUplinkPassThroughMessage", next_id) >>
             ELSE /\ route_calls' = << >>
                  /\ UNCHANGED << vmw_write_queue_, vmw_sends >>

\* the MPLS datagram handler with its inputs: an error, no byte, or 40 bytes
MPLSReceive ==
  \E ec \in ErrorCodes, bytes_transferred \in { 0, 40 } :
    MPLSOnReadComplete(ec, bytes_transferred)

(***************************************************************************)
(* The read side of the MD interface                                       *)
(***************************************************************************)
\* Defs::FIXED_ITM_PAYLOAD_SIZE: a fixed ITM is 48 bytes, 5 of them its header
FIXED_ITM_PAYLOAD_SIZE == FIXED_ITM_SIZE - ITM_HEADER_SIZE
\* a datagram on the MD socket: bytes received and, read from its first five
\* bytes, the VITM bit, the payload type, the sourceNode byte and the
\* destination node; for a VITM, whether its payload size lies within
\* MIN_VITM_PAYLOAD_SIZE..MAX_VITM_PAYLOAD_SIZE
MdItm(size, vitm, vitm_in_bounds, payload_type, sourceNode, dstnid) ==
  [ size |-> size, vitm |-> vitm, vitm_in_bounds |-> vitm_in_bounds,
    payload_type |-> payload_type, sourceNode |-> sourceNode, dstnid |-> dstnid ]

MdDatagrams ==
  { \* fixed ITMs of mission data, with the local and with a foreign sourceNode byte
    MdItm(FIXED_ITM_SIZE, FALSE, FALSE, 0, LOCAL_NODE_ID, TpnNode),
    MdItm(FIXED_ITM_SIZE, FALSE, FALSE, 3, OtherNode, BypassNode),
    \* a VITM of mission data within the bounds
    MdItm(30, TRUE, TRUE, 1, OtherNode, TpnNode),
    \* a fixed ITM that is not mission data, a VITM that is not
    MdItm(FIXED_ITM_SIZE, FALSE, FALSE, 2, LOCAL_NODE_ID, TpnNode),
    MdItm(30, TRUE, TRUE, 4, LOCAL_NODE_ID, TpnNode),
    \* a fixed ITM one byte short, a header without payload, a VITM out of bounds
    MdItm(FIXED_ITM_SIZE - 1, FALSE, FALSE, 0, LOCAL_NODE_ID, TpnNode),
    MdItm(ITM_HEADER_SIZE, FALSE, FALSE, 1, LOCAL_NODE_ID, TpnNode),
    MdItm(300, TRUE, FALSE, 1, LOCAL_NODE_ID, TpnNode),
    \* fewer bytes than an ITM header, and no byte
    MdItm(ITM_HEADER_SIZE - 1, FALSE, FALSE, 0, LOCAL_NODE_ID, TpnNode),
    MdItm(0, FALSE, FALSE, 0, LOCAL_NODE_ID, TpnNode) }

\* checks that let an ITM of any payload type through
MDAcceptsAnyPayloadType(itm_packet) ==
  /\ ~(itm_packet.size < ITM_HEADER_SIZE)
  /\ IF itm_packet.vitm
     THEN itm_packet.vitm_in_bounds
     ELSE ~(itm_packet.size - ITM_HEADER_SIZE # FIXED_ITM_PAYLOAD_SIZE)

\* the checks of MDInterface::HandleReadData: none of its returns is taken
MDAccepts(itm_packet) ==
  /\ ~(itm_packet.size < ITM_HEADER_SIZE)
  /\ IF itm_packet.vitm
     THEN itm_packet.vitm_in_bounds
     ELSE ~(itm_packet.size - ITM_HEADER_SIZE # FIXED_ITM_PAYLOAD_SIZE)
  /\ IsMissionDataPayloadType(itm_packet.payload_type)

\* the record of a call RouteUplinkITM(itm_buf, source_node, dest_node)
UplinkItmCall(id, source_node, dest_node) ==
  [ id |-> id, source_node |-> source_node, dest_node |-> dest_node ]

\* DataRouter::RouteUplinkITM: VMWInterface::SendUplinkITM with the delay of
\* the route (source_node, dest_node)
RouteUplinkITM(itm, id, source_node, dest_node) ==
  SendUplinkITMOn(itm, id, ItmDelayGet(itm_delay_, source_node, dest_node))

\* a last statement of HandleReadData that names the local node as the source
MDRouteAcceptedFromLocalNode(itm_packet, id) ==
  /\ RouteUplinkITM(itm_packet, id, LOCAL_NODE_ID, itm_packet.dstnid)
  /\ uplink_itm_calls' = << UplinkItmCall(id, LOCAL_NODE_ID, itm_packet.dstnid) >>

\* the last statement of HandleReadData, for a packet that passed its checks:
\* router_.RouteUplinkITM(itm_packet, itm_header->sourceNode,
\* itm_header->GetDestinationId())
MDRouteAccepted(itm_packet, id) ==
  /\ RouteUplinkITM(itm_packet, id, itm_packet.sourceNode, itm_packet.dstnid)
  /\ uplink_itm_calls' = << UplinkItmCall(id, itm_packet.sourceNode, itm_packet.dstnid) >>

\* MDInterface::OnReadComplete with HandleReadData; the datagram is the
\* buffer next_id
MDOnReadComplete(ec, itm_packet) ==
  /\ started
  /\ md_read_posted
  /\ ec = "success" => md_socket_open
  /\ UNCHANGED << started, VMW_COMMON_MAX_PACKETS_PER_TIMESLOT, dest_valid,
                  TotalInvalidMplsPacketsDiscarded, TotalMplsPacketsConverted,
                  vmw_read_posted, vmw_reads, vmw_last_dg, route_calls, tpn_downlink,
                  tosim_drops, route_outcomes, kba_read_posted, kba_reads, configVars, parserVars, executorVars, send_errors,
                  md_k_frame_count_, md_write_queue_, md_write_delayed_, md_sends,
                  vmw_k_frame_count_, vmw_write_queue_, vmw_socket_open, vmw_sends,
                  vmw_drained, vmw_policy_drops, tosv_applied, kbaVars, sokfVars >>
  /\ IF ec # "success"
     THEN \* error: close the socket and post no further receive
          /\ md_socket_open' = FALSE
          /\ md_read_posted' = FALSE
          /\ UNCHANGED << next_id, md_reads, md_last_dg, uplink_itm_calls,
                          vmw_write_delayed_ >>
     ELSE \* HandleReadData, then DoRead
          /\ UNCHANGED << md_socket_open, md_read_posted >>
          /\ md_reads' = md_reads + 1
          /\ md_last_dg' = itm_packet
          /\ next_id' = next_id + 1
          /\ IF MDAccepts(itm_packet)
             THEN MDRouteAccepted(itm_packet, next_id)
             ELSE /\ uplink_itm_calls' = << >>
                  /\ UNCHANGED vmw_write_delayed_

\* the MD datagram handler with its inputs: an error or a datagram
MDReceive(datagrams) ==
  \/ \E ec \in ErrorCodes \ {"success"} :
       MDOnReadComplete(ec, CHOOSE dg \in datagrams : TRUE)
  \/ \E dg \in datagrams : MDOnReadComplete("success", dg)

(***************************************************************************)
(* SpecDownlink: datagrams from the VMW, well-formed and malformed, and    *)
(* the sends to the MD and to the KBA they lead to                         *)
(***************************************************************************)
NextDownlink ==
  \/ Start_i
  \/ vmw_reads < MaxReads /\ VMWReceive(VmwDatagrams)
  \/ \E ec \in ErrorCodes : MDOnWriteComplete(ec)
  \/ \E ec \in ErrorCodes : MPLSOnWriteComplete(ec)

InitDownlink == InitConfig(TimeslotLimits, { AllValid }, ItmDelayTables)

SpecDownlink == InitDownlink /\ [][NextDownlink]_vars

(***************************************************************************)
(* SpecRoute: datagrams from the VMW and from the KBA, uplink ITMs and     *)
(* SOKFs, under configurations with sentinel destination addresses         *)
(***************************************************************************)
DestConfigs ==
  { AllValid,
    [ AllValid EXCEPT !["CP_VMW_DEST_ADDRESS"] = FALSE, !["KBA_DEST_ADDRESS"] = FALSE ],
    [ AllValid EXCEPT !["DP_VMW_DEST_ADDRESS"] = FALSE,
                      !["MISSION_DATA_DEST_ADDRESS"] = FALSE ] }

\* two well-formed datagrams, one of them with a sub-packet for the HPL node,
\* and a malformed one
RouteDatagrams ==
  { WellFormed(<< FixedSub(0, BypassNode), FixedSub(2, TpnNode) >>),
    WellFormed(<< FixedSub(2, HPL_NODE_ID), FixedSub(0, TpnNode) >>),
    VmwDatagram(118, 100, 2, << FixedSub(0, BypassNode), FixedSub(2, TpnNode) >>) }

InitRoute == InitConfig({ 1000 }, DestConfigs, ItmDelayTables)

NextRoute ==
  \/ Start_i
  \/ vmw_reads + kba_reads < MaxRouteReads /\ VMWReceive(RouteDatagrams)
  \/ vmw_reads + kba_reads < MaxRouteReads /\ MPLSReceive
  \/ next_id <= MaxRouteUplink /\ \E itm \in UplinkITMs : SendUplinkITM(itm, Zero32)
  \/ \E ec \in ErrorCodes : MDOnWriteComplete(ec)
  \/ \E ec \in ErrorCodes : VMWOnWriteComplete(ec)
  \/ \E ec \in ErrorCodes : MPLSOnWriteComplete(ec)
  \/ Len(valid_sokfs) < MaxRouteFrames /\ SOKFReceive(SokfDatagrams)

SpecRoute == InitRoute /\ [][NextRoute]_vars

(***************************************************************************)
(* SpecMD: datagrams on the MD socket, well-formed and malformed, under    *)
(* ItmDelay tables that tell the routes of two source nodes apart, and the *)
(* SOKFs that release what was accepted                                    *)
(***************************************************************************)
\* ItmDelay tables: the default one, and one that delays the routes from the
\* foreign node by a frame and those from the local node by two
MdItmDelayTables ==
  { DefaultItmDelay,
    [ DefaultItmDelay EXCEPT !.route_delays =
        { RouteDelay(OtherNode, BypassNode, One32), RouteDelay(OtherNode, TpnNode, One32),
          RouteDelay(LOCAL_NODE_ID, BypassNode, U32(0, 2)),
          RouteDelay(LOCAL_NODE_ID, TpnNode, U32(0, 2)) } ] }

InitMD == InitConfig({ 1000 }, { AllValid }, MdItmDelayTables)

NextMD ==
  \/ Start_i
  \/ md_reads < MaxMdReads /\ MDReceive(MdDatagrams)
  \/ \E ec \in ErrorCodes : VMWOnWriteComplete(ec)
  \/ Len(valid_sokfs) < MaxMdFrames /\ SOKFReceive(SokfDatagrams)

SpecMD == InitMD /\ [][NextMD]_vars

(***************************************************************************)
(* SpecMdDownlink: batches with mission data for the two bypass nodes,     *)
(* under ItmDelay tables that give their routes no delay, one frame or the *)
(* largest delay, with SOKFs and the completions of the MD sends           *)
(***************************************************************************)
MdDownlinkTables ==
  { DefaultItmDelay,
    [ DefaultItmDelay EXCEPT !.route_delays =
        { RouteDelay(LOCAL_NODE_ID, BypassNode, One32),
          RouteDelay(OtherNode, SecondBypassNode, One32) } ],
    [ default_delay |-> One32,
      route_delays |-> { RouteDelay(LOCAL_NODE_ID, SecondBypassNode,
                                    U32(Half - 1, Half - 1)) } ] }

MdDownlinkDatagrams ==
  { WellFormed(<< FixedSub(0, BypassNode), FixedSub(1, SecondBypassNode) >>),
    WellFormed(<< FixedSub(3, SecondBypassNode) >>),
    WellFormed(<< FixedSub(0, BypassNode), FixedSub(2, TpnNode) >>) }

InitMdDownlink == InitConfig({ 1000 }, { AllValid }, MdDownlinkTables)

NextMdDownlink ==
  \/ Start_i
  \/ vmw_reads < MaxSendReads /\ VMWReceive(MdDownlinkDatagrams)
  \/ \E ec \in ErrorCodes : MDOnWriteComplete(ec)
  \/ Len(valid_sokfs) < MaxSendFrames /\ SOKFReceive(SokfDatagrams)

SpecMdDownlink == InitMdDownlink /\ [][NextMdDownlink]_vars

(***************************************************************************)
(* SpecParser: VMWMessageParser::Perform on messages of up to MaxParsed    *)
(* sub-packets, with every num_packets up to one more, cut short or with   *)
(* extraneous bytes, with and without the right message_length             *)
(***************************************************************************)
ParserSubs ==
  { FixedSub(0, BypassNode), VitmSub(30, TRUE, TpnNode), VitmSub(30, FALSE, TpnNode),
    ShortSub(8, FALSE), ShortSub(9, TRUE), [ FixedSub(2, TpnNode) EXCEPT !.len = 30 ] }

\* the bytes a message has more than its sub-packets take; a negative number
\* cuts the message short
SizeDeltas == { 0 - 10, 0 - 3, 0 - 2, 0 - 1, 0, 1, 2 }

ParserInputs ==
  { VmwDatagram(WireSize(subs) + delta, WireSize(subs) + delta + off, num_packets, subs) :
      subs \in UNION { [ 1..k -> ParserSubs ] : k \in 0..MaxParsed },
      delta \in SizeDeltas, off \in { 0, 1 }, num_packets \in 0..(MaxParsed + 1) }

InitParser == InitWith({ 1000 })

NextParser == \E dg \in ParserInputs : ParserPerform(dg)

SpecParser == InitParser /\ [][NextParser]_vars

(***************************************************************************)
(* SpecBatch: batches of two sub-packets whose second one is in order,     *)
(* fails a check of the parser, is cut short or is followed by the claim   *)
(* of a third, after a first one for the HPL node, the bypass node or the  *)
(* TPN; with the completions of the sends they cause                       *)
(***************************************************************************)
BatchFirsts == { FixedSub(2, HPL_NODE_ID), FixedSub(0, BypassNode), FixedSub(2, TpnNode) }
BatchSeconds ==
  { FixedSub(2, TpnNode), ShortSub(8, FALSE), VitmSub(30, FALSE, TpnNode),
    [ FixedSub(2, TpnNode) EXCEPT !.len = 30 ] }

BatchDatagrams ==
  { WellFormed(<< f, s >>) : f \in BatchFirsts, s \in BatchSeconds }
  \cup { VmwDatagram(WireSize(<< f, FixedSub(2, TpnNode) >>) - 1,
                     WireSize(<< f, FixedSub(2, TpnNode) >>) - 1,
                     2, << f, FixedSub(2, TpnNode) >>) : f \in BatchFirsts }
  \cup { VmwDatagram(WireSize(<< f, FixedSub(2, TpnNode) >>),
                     WireSize(<< f, FixedSub(2, TpnNode) >>),
                     3, << f, FixedSub(2, TpnNode) >>) : f \in BatchFirsts }

InitBatch == InitConfig({ 1000 }, { AllValid }, ItmDelayTables)

NextBatch ==
  \/ Start_i
  \/ vmw_reads < MaxBatchReads /\ VMWReceive(BatchDatagrams)
  \/ \E ec \in ErrorCodes : MDOnWriteComplete(ec)
  \/ \E ec \in ErrorCodes : MPLSOnWriteComplete(ec)

SpecBatch == InitBatch /\ [][NextBatch]_vars

(***************************************************************************)
(* The configuration commands of the DataRouter.  ItmDelay, the drop        *)
(* policies and the TPN interface keep what the commands set: a default    *)
(* delay, one delay per route of its own, one policy per payload type and  *)
(* the checksum switch.                                                    *)
(***************************************************************************)
\* TPNInterface::ChangeConfigUDPChecksum: the new value of the switch
ChangeConfigUDPChecksum(new_value) == new_value

\* ItmDelay::changeConfig_itmdelay: the default delay of the routes without an
\* entry of their own
changeConfig_itmdelay(itm_delay, new_value) ==
  [ itm_delay EXCEPT !.default_delay = new_value ]

\* ItmDelay::changeConfig_routedelay: the entry of the route (svnode, simnode)
changeConfig_routedelay(itm_delay, svnode, simnode, delay) ==
  [ itm_delay EXCEPT !.route_delays =
      { r \in @ : ~(r.source_node = svnode /\ r.dest_node = simnode) }
      \cup { RouteDelay(svnode, simnode, delay) } ]

\* DropPolicies::changeConfig: the policy of the payload type pt
changeConfig(drop_policies, pt, algo, interval) ==
  { p \in drop_policies : p.pt # pt }
  \cup { [ pt |-> pt, algo |-> algo, interval |-> interval ] }

\* the policy of the payload type pt: its entry, or no drop algorithm
PolicyOf(drop_policies, pt) ==
  IF \E p \in drop_policies : p.pt = pt
  THEN LET p == CHOOSE p \in drop_policies : p.pt = pt
       IN  [ algo |-> p.algo, interval |-> p.interval ]
  ELSE [ algo |-> "None", interval |-> 0 ]

\* DropPolicies::apply: the answers the policy of a payload type can give;
\* the algorithm None never drops, any other drops some packets and lets
\* others pass
apply(drop_policies, payload_type) ==
  IF PolicyOf(drop_policies, payload_type).algo = "None"
  THEN { FALSE }
  ELSE { FALSE, TRUE }

\* everything but the configuration and io_service_
nonConfigVars ==
  << started, VMW_COMMON_MAX_PACKETS_PER_TIMESLOT, next_id, mdVars, vmwVars, kbaVars,
     sokfVars, dest_valid, TotalInvalidMplsPacketsDiscarded, TotalMplsPacketsConverted,
     vmw_read_posted, vmw_reads, vmw_last_dg, route_calls, tpn_downlink, tosim_drops,
     route_outcomes, kba_read_posted, kba_reads, mdReadVars, parserVars, send_errors >>

\* io_service_.post, called by a thread other than the dedicated one
Post(task) ==
  /\ io_service_' = Append(io_service_, task)
  /\ io_posts' = io_posts + 1
  /\ UNCHANGED << nonConfigVars, configVars >>

\* DataRouter::Start
Start == Post(PostedTask("Start_i", NoCommandData))

\* DataRouter::ChangeConfigToDefault
ChangeConfigToDefault == Post(PostedTask("ChangeConfigToDefault_i", NoCommandData))

\* a ChangeConfig that applies the command in the thread of its caller
ChangeConfigInCaller(cmd_data) ==
  /\ cmd_data.udpchksm # << >>
  /\ udp_checksum_' = cmd_data.udpchksm[1]
  /\ UNCHANGED << nonConfigVars, executorVars, itm_delay_, tosim_drop_policies_,
                  tosv_drop_policies_ >>

\* DataRouter::ChangeConfig
ChangeConfig(cmd_data) == Post(PostedTask("ChangeConfig_i", cmd_data))

\* the dedicated thread takes the oldest closure, which calls fn
RunPosted(fn) ==
  /\ io_service_ # << >>
  /\ Head(io_service_).fn = fn
  /\ io_service_' = Tail(io_service_)
  /\ UNCHANGED << io_posts, nonConfigVars >>

\* DataRouter::ChangeConfigToDefault_i
ChangeConfigToDefault_i ==
  /\ RunPosted("ChangeConfigToDefault_i")
  /\ udp_checksum_' = DefaultUdpChecksum
  /\ itm_delay_' = DefaultItmDelay
  /\ tosim_drop_policies_' = DefaultDropPolicies
  /\ tosv_drop_policies_' = DefaultDropPolicies

\* a ChangeConfig_i that sets what the command leaves out to its default
ChangeConfig_iDefaultingAbsent(cmd_data) ==
  /\ RunPosted("ChangeConfig_i")
  /\ Head(io_service_).cmd_data = cmd_data
  /\ udp_checksum_' = IF cmd_data.udpchksm # << >>
                      THEN ChangeConfigUDPChecksum(cmd_data.udpchksm[1])
                      ELSE DefaultUdpChecksum
  /\ itm_delay_' =
       LET with_default == IF cmd_data.itmdelay # << >>
                           THEN changeConfig_itmdelay(itm_delay_, cmd_data.itmdelay[1])
                           ELSE changeConfig_itmdelay(itm_delay_, Zero32)
       IN  IF cmd_data.miaroutedelay # << >>
           THEN LET info == cmd_data.miaroutedelay[1]
                IN  changeConfig_routedelay(with_default, info.svnode, info.simnode,
                                            info.delay)
           ELSE with_default
  /\ tosim_drop_policies_' =
       IF cmd_data.miadroptosim # << >>
       THEN LET info == cmd_data.miadroptosim[1]
            IN  changeConfig(tosim_drop_policies_, info.pt, info.algo, info.interval)
       ELSE DefaultDropPolicies
  /\ tosv_drop_policies_' =
       IF cmd_data.miadroptosv # << >>
       THEN LET info == cmd_data.miadroptosv[1]
            IN  changeConfig(tosv_drop_policies_, info.pt, info.algo, info.interval)
       ELSE DefaultDropPolicies

\* DataRouter::ChangeConfig_i with the command the closure captured
ChangeConfig_i(cmd_data) ==
  /\ RunPosted("ChangeConfig_i")
  /\ Head(io_service_).cmd_data = cmd_data
  /\ udp_checksum_' = IF cmd_data.udpchksm # << >>
                      THEN ChangeConfigUDPChecksum(cmd_data.udpchksm[1])
                      ELSE udp_checksum_
  /\ itm_delay_' =
       LET with_default == IF cmd_data.itmdelay # << >>
                           THEN changeConfig_itmdelay(itm_delay_, cmd_data.itmdelay[1])
                           ELSE itm_delay_
       IN  IF cmd_data.miaroutedelay # << >>
           THEN LET info == cmd_data.miaroutedelay[1]
                IN  changeConfig_routedelay(with_default, info.svnode, info.simnode,
                                            info.delay)
           ELSE with_default
  /\ tosim_drop_policies_' =
       IF cmd_data.miadroptosim # << >>
       THEN LET info == cmd_data.miadroptosim[1]
            IN  changeConfig(tosim_drop_policies_, info.pt, info.algo, info.interval)
       ELSE tosim_drop_policies_
  /\ tosv_drop_policies_' =
       IF cmd_data.miadroptosv # << >>
       THEN LET info == cmd_data.miadroptosv[1]
            IN  changeConfig(tosv_drop_policies_, info.pt, info.algo, info.interval)
       ELSE tosv_drop_policies_

(***************************************************************************)
(* SpecConfig: Start and configuration commands posted by other threads    *)
(* and run by the dedicated one, between the reads of a batch of mission   *)
(* data for the bypass node, SOKFs and the completions of the MD sends     *)
(***************************************************************************)
RouteDelayInfo(svnode, simnode, delay) ==
  [ svnode |-> svnode, simnode |-> simnode, delay |-> delay ]
DropInfo(pt, algo, interval) == [ pt |-> pt, algo |-> algo, interval |-> interval ]

\* commands: nothing set, each field alone, and all five
ConfigCommands ==
  { NoCommandData,
    CommandData(<< TRUE >>, << >>, << >>, << >>, << >>),
    CommandData(<< >>, << One32 >>, << >>, << >>, << >>),
    CommandData(<< >>, << >>,
                << RouteDelayInfo(LOCAL_NODE_ID, BypassNode, U32(0, 2)) >>, << >>, << >>),
    CommandData(<< >>, << >>, << >>, << DropInfo(2, "Periodic", 3) >>, << >>),
    CommandData(<< >>, << >>, << >>, << >>, << DropInfo(4, "Random", 5) >>),
    CommandData(<< FALSE >>, << U32(0, 2) >>,
                << RouteDelayInfo(LOCAL_NODE_ID, BypassNode, One32) >>,
                << DropInfo(3, "Random", 2) >>, << DropInfo(2, "Periodic", 4) >>) }

ConfigDatagrams == { WellFormed(<< FixedSub(0, BypassNode), FixedSub(1, BypassNode) >>) }

InitConfigCommands == InitPosted({ 1000 }, { AllValid }, { DefaultItmDelay }, << >>)

NextConfig ==
  \/ io_posts = 0 /\ Start
  \/ io_posts < MaxPosted /\ ChangeConfigToDefault
  \/ io_posts < MaxPosted /\ \E cmd_data \in ConfigCommands : ChangeConfig(cmd_data)
  \/ Start_i
  \/ ChangeConfigToDefault_i
  \/ \E cmd_data \in ConfigCommands : ChangeConfig_i(cmd_data)
  \/ vmw_reads < MaxConfigReads /\ VMWReceive(ConfigDatagrams)
  \/ \E ec \in ErrorCodes : MDOnWriteComplete(ec)
  \/ Len(valid_sokfs) < MaxConfigFrames /\ SOKFReceive(SokfDatagrams)

SpecConfig == InitConfigCommands /\ [][NextConfig]_vars

(***************************************************************************)
(* SpecSendErrors: sends of the MD, VMW and KBA endpoints, direct and      *)
(* delayed by a frame, whose completions report success, a cancellation or *)
(* another error, and a SOKF                                               *)
(***************************************************************************)
NextSendErrors ==
  \/ Start_i
  \/ next_id <= MaxErrorPackets /\ \E d \in { Zero32, One32 } : SendDownlinkITM(d)
  \/ next_id <= MaxErrorPackets /\ \E itm \in UplinkITMs : SendUplinkITM(itm, One32)
  \/ next_id <= MaxErrorPackets /\ SendUplinkPassThroughMessage
  \/ next_id <= MaxErrorPackets /\ SendDownlinkPassThroughMessage
  \/ \E ec \in ErrorCodes : MDOnWriteComplete(ec)
  \/ \E ec \in ErrorCodes : VMWOnWriteComplete(ec)
  \/ \E ec \in ErrorCodes : MPLSOnWriteComplete(ec)
  \/ Len(valid_sokfs) < MaxErrorFrames /\ SOKFReceive(SokfDatagrams)

SpecSendErrors == InitWith({ 1000 }) /\ [][NextSendErrors]_vars

(***************************************************************************)
(* SpecProgress: sends of the MD, VMW and KBA endpoints, direct, delayed   *)
(* and batched, none of which completes with an error and each of which    *)
(* completes in the end                                                    *)
(***************************************************************************)
NextProgress ==
  \/ Start_i
  \/ next_id <= MaxProgressPackets /\ \E d \in { Zero32, One32 } : SendDownlinkITM(d)
  \/ next_id <= MaxProgressPackets
       /\ \E itm \in UplinkITMs, d \in { Zero32, One32 } : SendUplinkITM(itm, d)
  \/ next_id <= MaxProgressPackets /\ SendUplinkPassThroughMessage
  \/ next_id <= MaxProgressPackets /\ SendDownlinkPassThroughMessage
  \/ MDOnWriteComplete("success")
  \/ VMWOnWriteComplete("success")
  \/ MPLSOnWriteComplete("success")
  \/ Len(valid_sokfs) < MaxProgressFrames /\ SOKFReceive(SokfDatagrams)

\* every send the socket was asked for completes
SendsComplete ==
  /\ WF_vars(MDOnWriteComplete("success"))
  /\ WF_vars(VMWOnWriteComplete("success"))
  /\ WF_vars(MPLSOnWriteComplete("success"))

SpecProgress == InitWith({ 2 }) /\ [][NextProgress]_vars /\ SendsComplete

(***************************************************************************)
(* SpecPolicy: uplink packets of mission-data and other payload types are  *)
(* delayed in the VMW endpoint, by two frames or not at all; from the      *)
(* first SOKF on, commands change the toSv drop policies; at each SOKF the *)
(* builder gets from to_sv_drop_policies_ an answer its current policies   *)
(* can give                                                                *)
(***************************************************************************)
PolicyCommands ==
  { CommandData(<< >>, << >>, << >>, << >>, << DropInfo(2, "Random", 2) >>),
    CommandData(<< >>, << >>, << >>, << >>, << DropInfo(2, "None", 0) >>),
    CommandData(<< >>, << >>, << >>, << >>, << DropInfo(4, "Periodic", 3) >>) }

\* the delayed packets the next SOKF makes due that to_sv_drop_policies_, as it
\* is now, can drop
Droppable ==
  LET due == DueEntries(vmw_write_delayed_, Add32(vmw_k_frame_count_, One32))
  IN  { due[i].second.id :
          i \in { j \in 1..Len(due) :
                    /\ due[j].second.id \in PolicyCandidates
                    /\ TRUE \in apply(tosv_drop_policies_, due[j].second.payload_type) } }

\* the SOKF datagram handler, the drop policy answering by its configuration
SOKFReceiveUnderPolicy(datagrams) ==
  \E dg \in datagrams :
    \E dropped \in (IF dg.bytes = SOKF_SIZE /\ SokfValid(dg)
                    THEN SUBSET Droppable ELSE {{}}) :
      SOKFOnReadComplete("success", dg, dropped)

NextPolicy ==
  \/ Start_i
  \/ /\ io_posts <= MaxPolicyPosted
     /\ valid_sokfs # << >>
     /\ \E cmd_data \in PolicyCommands : ChangeConfig(cmd_data)
  \/ \E cmd_data \in PolicyCommands : ChangeConfig_i(cmd_data)
  \/ next_id <= MaxPolicyPackets
       /\ \E itm \in UplinkITMs, d \in { Zero32, U32(0, 2) } : SendUplinkITM(itm, d)
  \/ next_id <= MaxPolicyPackets
       /\ \E mpls \in UplinkMPLSPackets, d \in { Zero32, U32(0, 2) } :
            SendUplinkMPLSPacket(mpls, d)
  \/ VMWOnWriteComplete("success")
  \/ Len(valid_sokfs) < MaxPolicyFrames /\ SOKFReceiveUnderPolicy(SokfDatagrams)

SpecPolicy == InitWith({ 1000 }) /\ [][NextPolicy]_vars

(***************************************************************************)
(* SpecTimeslot: uplink packets of both planes, due on the first or the    *)
(* second SOKF, under a VMW_COMMON_MAX_PACKETS_PER_TIMESLOT that they      *)
(* reach; the toSv policy drops any of them                                *)
(***************************************************************************)
NextTimeslot ==
  \/ Start_i
  \/ next_id <= MaxTimeslotPackets
       /\ \E itm \in UplinkITMs, d \in { Zero32, One32 } : SendUplinkITM(itm, d)
  \/ next_id <= MaxTimeslotPackets
       /\ \E mpls \in UplinkMPLSPackets, d \in { Zero32, One32 } :
            SendUplinkMPLSPacket(mpls, d)
  \/ VMWOnWriteComplete("success")
  \/ Len(valid_sokfs) < MaxTimeslotFrames /\ SOKFReceive(SokfDatagrams)

SpecTimeslot == InitWith(SmallTimeslotLimits) /\ [][NextTimeslot]_vars

(***************************************************************************)
(* SpecSynthesis: uplink packets are prepared from ITM buffers and MPLS    *)
(* packets of several kinds and lengths, wait in the delayed map and are   *)
(* batched by a SOKF; downlink ITMs are handed to the MD interface next to *)
(* them.                                                                   *)
(***************************************************************************)
NextSynthesis ==
  \/ Start_i
  \/ /\ next_id <= MaxSynthesisPackets
     /\ \/ \E itm \in SynthesisITMs, d \in { Zero32, One32 } : SendUplinkITM(itm, d)
        \/ \E mpls \in SynthesisMPLSPackets, d \in { Zero32, One32 } :
             SendUplinkMPLSPacket(mpls, d)
        \/ \E d \in { Zero32, One32 } : SendDownlinkITM(d)
  \/ VMWOnWriteComplete("success")
  \/ MDOnWriteComplete("success")
  \/ Len(valid_sokfs) < MaxSynthesisFrames /\ SOKFReceive(SokfDatagrams)

SpecSynthesis == InitWith({ 1000 }) /\ [][NextSynthesis]_vars

(***************************************************************************)
(* Properties                                                              *)
(***************************************************************************)
\* the MPLS packets inside the batch messages of a VMW write queue
BatchedPackets(write_queue) ==
  UNION { { write_queue[i].packets[j] : j \in 1..Len(write_queue[i].packets) } :
            i \in 1..Len(write_queue) }

\* the values stored in a delayed map
Seconds(write_delayed) == { write_delayed[i].second : i \in 1..Len(write_delayed) }

\* the sum of two uint32_t values as a number: hi is not reduced modulo 2^16
AddExact(a, b) ==
  LET lo == a.lo + b.lo
  IN  U32(a.hi + b.hi + (lo \div Half), lo % Half)

\* f_in + d of a packet, as a number that is not reduced modulo 2^32
DueFrame(p) == AddExact(p.enq_frame, p.enq_delay)

\* C1 (delay respect): a packet handed to SendDownlinkITM, SendUplinkITM or
\* SendUplinkMPLSPacket at frame f_in with route delay d is in the endpoint's
\* write queue (MD), or in a batch of the write queue (VMW), only in states
\* whose frame counter is at least f_in + d.
DelayRespect ==
  /\ \A i \in 1..Len(md_write_queue_) :
       Leq32(DueFrame(md_write_queue_[i]), md_k_frame_count_)
  /\ \A p \in BatchedPackets(vmw_write_queue_) :
       Leq32(DueFrame(p), vmw_k_frame_count_)

\* C2 (exact release frame): an uplink packet held by the VMW endpoint with
\* route delay d >= 1, enqueued at frame f, is held while the counter is below
\* f + d; the step that makes the counter f + d takes it out of the delayed map
\* and, unless the toSv policy drops it, puts it into a batch that step pushes
\* onto the write queue; every other step leaves it in the map and out of the
\* write queue.
ExactReleaseFrame ==
  [][ \A p \in Seconds(vmw_write_delayed_) :
        Less32(Zero32, p.enq_delay) =>
          /\ Less32(vmw_k_frame_count_, DueFrame(p))
          /\ IF vmw_k_frame_count_' = DueFrame(p)
             THEN /\ p \notin Seconds(vmw_write_delayed_')
                  /\ p.id \notin vmw_policy_drops' =>
                       p \in BatchedPackets(vmw_write_queue_')
                               \ BatchedPackets(vmw_write_queue_)
             ELSE /\ p \in Seconds(vmw_write_delayed_')
                  /\ p \notin BatchedPackets(vmw_write_queue_')
    ]_vars

\* the bytes of the packets lo..hi of a batch: what follows the outer header
\* and the packet count in the message
RECURSIVE BatchBytes(_, _, _)
BatchBytes(packets, lo, hi) ==
  IF lo > hi
  THEN 0
  ELSE IF lo = hi
  THEN packets[lo].size
  ELSE LET mid == (lo + hi) \div 2
       IN  BatchBytes(packets, lo, mid) + BatchBytes(packets, mid + 1, hi)

\* C3 (batch size): in every batch message on the VMW write queue, the bytes
\* that follow the outer header and the packet count are at most
\* MAX_MPLS_BATCH_SIZE (38880).
BatchSize ==
  \A i \in 1..Len(vmw_write_queue_) :
    BatchBytes(vmw_write_queue_[i].packets, 1, Len(vmw_write_queue_[i].packets)) <= 38880

\* the size limit has split a run of packets: two batches next to each other
\* on the write queue that as one batch would have exceeded the limit
BatchSplitBySize ==
  \E i \in 1..(Len(vmw_write_queue_) - 1) :
    BatchBytes(vmw_write_queue_[i].packets, 1, Len(vmw_write_queue_[i].packets))
      + BatchBytes(vmw_write_queue_[i + 1].packets, 1, Len(vmw_write_queue_[i + 1].packets))
      > 38880

\* C4 (plane purity): a batch tagged DP holds only packets of payload type 0, 1
\* or 3, and a batch tagged CP holds only packets of the other payload types.
PlanePurity ==
  \A i \in 1..Len(vmw_write_queue_) :
    LET m == vmw_write_queue_[i]
    IN  m.kind = "batch" =>
          \A j \in 1..Len(m.packets) :
            /\ m.destination = "DP" => m.packets[j].payload_type \in {0, 1, 3}
            /\ m.destination = "CP" => m.packets[j].payload_type \notin {0, 1, 3}

\* one SOKF has emitted a batch for each plane, the data-plane one holding an
\* MPLS packet of payload type 3
BothPlanesEmitted ==
  /\ \E i \in 1..Len(vmw_write_queue_) :
       /\ vmw_write_queue_[i].destination = "DP"
       /\ \E j \in 1..Len(vmw_write_queue_[i].packets) :
            vmw_write_queue_[i].packets[j].payload_type = 3
  /\ \E i \in 1..Len(vmw_write_queue_) :
       /\ vmw_write_queue_[i].kind = "batch"
       /\ vmw_write_queue_[i].destination = "CP"
       /\ vmw_write_queue_[i].packets # << >>

\* C5 (batch overflow, scenario S4): when a SOKF makes 721 fixed-size
\* control-plane packets of 54 prepared bytes due, none of them dropped, and
\* the per-timeslot packet limit does not cut the batch short, the write queue
\* holds two CP batches after it, the first of 720 packets, the second of 1.
BatchOverflowS4 ==
  ( /\ VMW_COMMON_MAX_PACKETS_PER_TIMESLOT >= 720
    /\ Len(vmw_drained) = 721
    /\ vmw_policy_drops = {} )
  => /\ Len(vmw_write_queue_) = 2
     /\ vmw_write_queue_[1].destination = "CP"
     /\ vmw_write_queue_[2].destination = "CP"
     /\ Len(vmw_write_queue_[1].packets) = 720
     /\ Len(vmw_write_queue_[2].packets) = 1

\* C6 (single in-flight send): on the MD, the KBA/MPLS and the VMW endpoint at
\* most one asynchronous send is outstanding in every reachable state.
SingleInFlight ==
  /\ Len(md_sends) <= 1
  /\ Len(kba_sends) <= 1
  /\ Len(vmw_sends) <= 1

\* a SOKF has pushed a released packet behind one whose send is outstanding
ReleaseBehindOutstandingSend ==
  /\ Len(md_sends) = 1
  /\ Len(md_write_queue_) = 2
  /\ md_write_queue_[1].enq_delay = Zero32
  /\ md_write_queue_[2].enq_delay = One32

\* s is a prefix of t
IsPrefix(s, t) == Len(s) <= Len(t) /\ SubSeq(t, 1, Len(s)) = s

\* every outstanding send is the send of the front of the write queue
FrontIsOutstanding(write_queue, sends) ==
  \A i \in 1..Len(sends) : write_queue # << >> /\ sends[i] = write_queue[1]

\* a step of one endpoint's write queue: items are pushed behind the ones
\* queued, or the completion handler of the outstanding send removes the
\* front; nothing else leaves or enters
FifoStep(write_queue, sends, write_queue_next, sends_next) ==
  /\ FrontIsOutstanding(write_queue, sends)
  /\ FrontIsOutstanding(write_queue_next, sends_next)
  /\ \/ IsPrefix(write_queue, write_queue_next)
     \/ /\ sends # << >>
        /\ write_queue_next = Tail(write_queue)

\* C7 (send order): on each endpoint the item whose send is outstanding is the
\* front of the write queue and stays there until its completion handler
\* runs; items enter at the back and leave from the front only, so they are
\* sent and removed in the order they were pushed.
SendOrder ==
  [][ /\ FifoStep(md_write_queue_, md_sends, md_write_queue_', md_sends')
      /\ FifoStep(kba_write_queue_, kba_sends, kba_write_queue_', kba_sends')
      /\ FifoStep(vmw_write_queue_, vmw_sends, vmw_write_queue_', vmw_sends')
    ]_vars

\* two messages are queued on the VMW endpoint and the send of the first one
\* is outstanding
FrontSendWithSecondQueued ==
  /\ Len(vmw_write_queue_) >= 2
  /\ vmw_write_queue_[1] # vmw_write_queue_[2]
  /\ vmw_sends = << vmw_write_queue_[1] >>

\* the key the code stored with a delayed item: k_frame_count_ + k_frame_to_delay
StoredKey(p) == Add32(p.enq_frame, p.enq_delay)

\* released is in ascending order of key, items of one key in the order of
\* their insertion (ids are given in the order of arrival)
InReleaseOrder(released) ==
  \A i, j \in 1..Len(released) :
    i < j =>
      \/ Less32(StoredKey(released[i]), StoredKey(released[j]))
      \/ /\ StoredKey(released[i]) = StoredKey(released[j])
         /\ released[i].id < released[j].id

\* the packets of the batches for one destination among msgs, in batch order
RECURSIVE PacketsTo(_, _)
PacketsTo(msgs, destination) ==
  IF msgs = << >>
  THEN << >>
  ELSE ( IF Head(msgs).kind = "batch" /\ Head(msgs).destination = destination
         THEN Head(msgs).packets
         ELSE << >> ) \o PacketsTo(Tail(msgs), destination)

\* the drained packets the builder keeps for one plane
KeptFor(drained, drops, data_plane) ==
  LET kept == SelectSeq(drained,
                        LAMBDA e : /\ (e.second.payload_type \in {0, 1, 3}) = data_plane
                                   /\ (data_plane \/ e.second.id \notin drops))
  IN  [ i \in 1..Len(kept) |-> kept[i].second ]

\* C8 (delayed release order): a SOKF takes from the delayed map of the MD and
\* of the VMW endpoint exactly the entries whose key is <= the incremented
\* counter, in ascending key order and in insertion order within one key; the
\* entries with a later key stay in the map.
DelayedReleaseOrder ==
  [][ /\ md_k_frame_count_' # md_k_frame_count_ =>
           LET released == SubSeq(md_write_queue_', Len(md_write_queue_) + 1,
                                  Len(md_write_queue_'))
           IN  /\ IsPrefix(md_write_queue_, md_write_queue_')
               /\ Len(released) + Len(md_write_delayed_') = Len(md_write_delayed_)
               /\ { released[i] : i \in 1..Len(released) } =
                    { e.second : e \in { x \in { md_write_delayed_[i] :
                                                   i \in 1..Len(md_write_delayed_) } :
                                           Leq32(x.first, md_k_frame_count_') } }
               /\ InReleaseOrder(released)
               /\ \A i \in 1..Len(md_write_delayed_') :
                    /\ Less32(md_k_frame_count_', md_write_delayed_'[i].first)
                    /\ md_write_delayed_'[i].second \in Seconds(md_write_delayed_)
      /\ vmw_k_frame_count_' # vmw_k_frame_count_ =>
           LET released == [ i \in 1..Len(vmw_drained') |-> vmw_drained'[i].second ]
               pushed == SubSeq(vmw_write_queue_', Len(vmw_write_queue_) + 1,
                                Len(vmw_write_queue_'))
           IN  /\ IsPrefix(vmw_write_queue_, vmw_write_queue_')
               /\ Len(released) + Len(vmw_write_delayed_') = Len(vmw_write_delayed_)
               /\ { released[i] : i \in 1..Len(released) } =
                    { e.second : e \in { x \in { vmw_write_delayed_[i] :
                                                   i \in 1..Len(vmw_write_delayed_) } :
                                           Leq32(x.first, vmw_k_frame_count_') } }
               /\ InReleaseOrder(released)
               /\ PacketsTo(pushed, "CP") = KeptFor(vmw_drained', vmw_policy_drops', FALSE)
               /\ PacketsTo(pushed, "DP") = KeptFor(vmw_drained', vmw_policy_drops', TRUE)
               /\ \A i \in 1..Len(vmw_write_delayed_') :
                    /\ Less32(vmw_k_frame_count_', vmw_write_delayed_'[i].first)
                    /\ vmw_write_delayed_'[i].second \in Seconds(vmw_write_delayed_)
    ]_vars

\* one SOKF has released two data-plane packets stored under the same key: they
\* sit in one batch, in the order of their arrival
SameKeyReleasedTogether ==
  /\ Len(vmw_drained) = 2
  /\ vmw_drained[1].first = vmw_drained[2].first
  /\ vmw_drained[1].second.id < vmw_drained[2].second.id
  /\ \E i \in 1..Len(vmw_write_queue_) :
       vmw_write_queue_[i].packets = << vmw_drained[1].second, vmw_drained[2].second >>

\* C9 (K-frame counter): the frame counter of the MD and of the VMW endpoint is
\* the number of valid SOKF datagrams received so far (0 at the start, one more
\* for each datagram that passed the size test and the validation, the first
\* one included, and for nothing else); after the valid offsets 3, 4, 6, 7 it
\* is 4.
KFrameCounter ==
  /\ md_k_frame_count_ = U32(0, Len(valid_sokfs))
  /\ vmw_k_frame_count_ = U32(0, Len(valid_sokfs))
  /\ \A i \in 1..Len(valid_sokfs) : valid_sokfs[i] \in 0..9
  /\ valid_sokfs = << 3, 4, 6, 7 >> =>
       md_k_frame_count_ = U32(0, 4) /\ vmw_k_frame_count_ = U32(0, 4)

\* the offsets 3, 4, 6, 7 have arrived: four frames counted, one SOKF missed
OffsetsThreeFourSixSeven ==
  /\ valid_sokfs = << 3, 4, 6, 7 >>
  /\ md_k_frame_count_ = U32(0, 4)
  /\ vmw_k_frame_count_ = U32(0, 4)
  /\ TotalSokfMissed = 1

\* C10 (missed-SOKF accounting): the first valid SOKF records its offset,
\* leaves Synchronizing and leaves TotalSokfMissed unchanged; a later valid
\* SOKF with offset o after previous offset p adds elapsed - 1 to
\* TotalSokfMissed, elapsed being o - p if o > p and (10 - p) + o otherwise,
\* and makes o the previous offset; no other step touches these.
MissedSokfAccounting ==
  [][ IF valid_sokfs' # valid_sokfs
      THEN LET o == valid_sokfs'[Len(valid_sokfs')]
               p == prev_kframe_offset_
               elapsed == IF o > p THEN o - p ELSE (10 - p) + o
           IN  /\ prev_kframe_offset_' = o
               /\ ~synchronizing_'
               /\ synchronizing_ <=> valid_sokfs = << >>
               /\ TotalSokfMissed' = IF valid_sokfs = << >>
                                     THEN TotalSokfMissed
                                     ELSE TotalSokfMissed + (elapsed - 1)
      ELSE UNCHANGED << prev_kframe_offset_, synchronizing_, TotalSokfMissed >>
    ]_vars

\* the same offset twice in a row counts nine missed SOKFs, and the successor
\* offset after it counts none
RepeatedOffsetThenSuccessor ==
  /\ valid_sokfs = << 9, 9, 0 >>
  /\ TotalSokfMissed = 9
  /\ prev_kframe_offset_ = 0
  /\ ~synchronizing_

\* a 12-byte datagram with a foreign msg_id, a msg_len other than 12 or a kframe
\* offset above 9
FailsValidation(dg) ==
  /\ dg.bytes = 12
  /\ ~dg.id_ok \/ dg.msg_len # 12 \/ dg.kframe_offset > 9

BytesThrough(dg, i) == WireSize(SubSeq(dg.subs, 1, i))

\* the size rule for a sub-packet: a VITM within its bounds, a fixed ITM of
\* exactly 4 + 48 bytes
SizeRule(sub) == IF sub.vitm THEN sub.vitm_in_bounds ELSE sub.len = 52

\* a datagram the parser has to reject: too short for the header and the
\* count, a size other than message_length, or among its num_packets
\* sub-packets one that is missing, shorter than 9 bytes, cut short by the end
\* of the buffer or against the size rule
ParserFails(dg) ==
  /\ dg.size > 0
  /\ \/ dg.size < 10
     \/ dg.size # dg.message_length
     \/ dg.num_packets > Len(dg.subs)
     \/ \E i \in 1..dg.num_packets :
          i <= Len(dg.subs) /\ ( \/ dg.subs[i].len < 9
                                 \/ BytesThrough(dg, i) > dg.size
                                 \/ ~SizeRule(dg.subs[i]) )

\* a valid downlink batch: at least one sub-packet and nothing to reject
ValidBatch(dg) == dg.size > 0 /\ dg.num_packets >= 1 /\ ~ParserFails(dg)

\* the calls RouteDownlinkMPLSPacket(sub-packet n), in sub-packet order, for
\* the sub-packets of dg that are not for the HPL node; dg is the buffer id
ExpectedRouteCalls(dg, id) ==
  LET NotHpl(n) == dg.subs[n].dstnid # HPL_NODE_ID
      kept == SelectSeq([ n \in 1..dg.num_packets |-> n ], NotHpl)
  IN  [ k \in 1..Len(kept) |-> RouteCall("RouteDownlinkMPLSPacket", id + kept[k]) ]

\* some sub-packet of dg is for the HPL node
HasHplSubPacket(dg) == \E n \in 1..dg.num_packets : dg.subs[n].dstnid = HPL_NODE_ID

\* C12: for a valid VMW downlink batch RouteDownlinkMPLSPacket is called
\* exactly once, in sub-packet order, for every sub-packet not destined for
\* the HPL node; RouteDownlinkPassThroughMessage is called once with the whole
\* datagram, after the loop, exactly when a sub-packet is destined for the HPL
\* node; TotalMplsPacketsConverted grows by one.
DownlinkBatchDispatch ==
  [][ vmw_reads' # vmw_reads /\ ValidBatch(vmw_last_dg')
        => /\ route_calls' =
                ExpectedRouteCalls(vmw_last_dg', next_id)
                \o ( IF HasHplSubPacket(vmw_last_dg')
                     THEN << RouteCall("RouteDownlinkPassThroughMessage", next_id) >>
                     ELSE << >> )
           /\ TotalMplsPacketsConverted' = TotalMplsPacketsConverted + 1 ]_vars

\* a batch with a sub-packet for the HPL node in front of another one was
\* dispatched: one packet routed, then the datagram passed through
HplSubPacketThenRouted ==
  /\ ValidBatch(vmw_last_dg)
  /\ vmw_last_dg.num_packets = 2
  /\ vmw_last_dg.subs[1].dstnid = HPL_NODE_ID
  /\ Len(route_calls) = 2
  /\ route_calls[1].fn = "RouteDownlinkMPLSPacket"
  /\ route_calls[2].fn = "RouteDownlinkPassThroughMessage"
  /\ route_calls[2].id < route_calls[1].id
  /\ TotalMplsPacketsConverted >= 1

\* the datagram as scenario S1 writes it: 25 bytes, message_length 25,
\* num_packets 2, two sub-packets with a length field of 9
IsS1(dg) ==
  /\ dg.size = 25
  /\ dg.message_length = 25
  /\ dg.num_packets = 2
  /\ Len(dg.subs) = 2
  /\ \A n \in 1..2 : dg.subs[n].len = 9

\* a valid batch of exactly two sub-packets, neither for the HPL node
TwoSubPacketBatch(dg) ==
  /\ ValidBatch(dg)
  /\ dg.num_packets = 2
  /\ ~HasHplSubPacket(dg)

\* RouteDownlinkMPLSPacket called twice, for sub-packet 1 and then 2 of the
\* datagram read in this step, and TotalMplsPacketsConverted grown by one
RoutedTwice ==
  /\ route_calls' = << RouteCall("RouteDownlinkMPLSPacket", next_id + 1),
                       RouteCall("RouteDownlinkMPLSPacket", next_id + 2) >>
  /\ TotalMplsPacketsConverted' = TotalMplsPacketsConverted + 1

\* C13 as the scenario states it: the 25-byte datagram of S1 makes the router
\* route two packets, pass nothing through and count one converted message.
S1DownlinkParse ==
  [][ vmw_reads' # vmw_reads /\ IsS1(vmw_last_dg')
        => RoutedTwice /\ UNCHANGED << kba_write_queue_, kba_sends >> ]_vars

\* C13, amended: a datagram whose size and message_length cover its two
\* sub-packets (32 bytes for two of 9 bytes) and whose sub-packets obey the
\* size rule, neither for the HPL node, makes the router route the two in
\* order, pass nothing through and count one converted message; the 25-byte
\* datagram of S1 cannot hold its second sub-packet and is discarded as
\* invalid without any call of the router.
S1DownlinkParseAmended ==
  [][ vmw_reads' # vmw_reads
        => /\ TwoSubPacketBatch(vmw_last_dg')
                => RoutedTwice /\ UNCHANGED << kba_write_queue_, kba_sends >>
           /\ IsS1(vmw_last_dg')
                => /\ route_calls' = << >>
                   /\ TotalInvalidMplsPacketsDiscarded' = TotalInvalidMplsPacketsDiscarded + 1
                   /\ UNCHANGED TotalMplsPacketsConverted ]_vars

\* the 32-byte datagram with two sub-packets of 9 bytes was read after the
\* 25-byte one: one message converted, one discarded, two packets routed
S1ThenThirtyTwoBytes ==
  /\ TwoSubPacketBatch(vmw_last_dg)
  /\ vmw_last_dg.size = 32
  /\ \A n \in 1..2 : vmw_last_dg.subs[n].len = 9
  /\ Len(route_calls) = 2
  /\ TotalMplsPacketsConverted = 1
  /\ TotalInvalidMplsPacketsDiscarded = 1

\* C14: when the parser fails on a VMW datagram, TotalInvalidMplsPacketsDiscarded
\* grows by one, TotalMplsPacketsConverted keeps its value, no method of the
\* router is called, no write queue and no delayed map changes, nothing is
\* sent, and the VMW endpoint posts its next receive.
InvalidBatchDiscarded ==
  [][ vmw_reads' # vmw_reads /\ ParserFails(vmw_last_dg')
        => /\ TotalInvalidMplsPacketsDiscarded' = TotalInvalidMplsPacketsDiscarded + 1
           /\ UNCHANGED TotalMplsPacketsConverted
           /\ route_calls' = << >>
           /\ tpn_downlink' = << >>
           /\ UNCHANGED << md_write_queue_, md_write_delayed_, md_sends,
                           vmw_write_queue_, vmw_write_delayed_, vmw_sends,
                           kba_write_queue_, kba_sends >>
           /\ vmw_read_posted'
           /\ vmw_socket_open' ]_vars

\* a datagram was discarded while an ITM of an earlier batch waited in the
\* delayed map of the MD endpoint and a pass-through message in the KBA queue
DiscardedWithTrafficPending ==
  /\ ParserFails(vmw_last_dg)
  /\ vmw_last_dg.size # vmw_last_dg.message_length
  /\ TotalInvalidMplsPacketsDiscarded = 1
  /\ TotalMplsPacketsConverted >= 1
  /\ md_write_delayed_ # << >> \/ kba_write_queue_ # << >>
  /\ vmw_read_posted

\* the ITMs the MD endpoint holds: queued, delayed or being sent
MdHeld ==
  { md_write_queue_[i].id : i \in 1..Len(md_write_queue_) }
  \cup { md_write_delayed_[i].second.id : i \in 1..Len(md_write_delayed_) }
  \cup { md_sends[i].id : i \in 1..Len(md_sends) }

\* the packets inside the batches the VMW endpoint holds: queued or being sent
VmwBatched ==
  { p.id : p \in BatchedPackets(vmw_write_queue_) \cup BatchedPackets(vmw_sends) }

\* the entries the last SOKF drained, without those the toSv policy dropped
DrainedAndKept ==
  SelectSeq(vmw_drained', LAMBDA e : e.second.id \notin vmw_policy_drops')

\* C15: a downlink sub-packet that the toSim policy drops reaches neither the
\* TPN nor the MD endpoint; an uplink packet that the toSv policy drops is in
\* no batch and no write queue, and the builder's accumulators and the batches
\* it emits are those of a drain in which the packet does not occur.
PolicyDropsLeaveNoTrace ==
  /\ [] ( /\ \A id \in tosim_drops :
               /\ id \notin { tpn_downlink[i] : i \in 1..Len(tpn_downlink) }
               /\ id \notin MdHeld
          /\ vmw_policy_drops \cap VmwBatched = {} )
  /\ [][ vmw_k_frame_count_' # vmw_k_frame_count_
           => vmw_write_queue_' =
                HandleWriteDelayed(vmw_write_queue_, DrainedAndKept, vmw_k_frame_count_',
                                   {}, VMW_COMMON_MAX_PACKETS_PER_TIMESLOT).write_queue_ ]_vars

\* both policies have dropped a packet: the toSim policy one sub-packet of a
\* batch whose other sub-packet went to the MD endpoint, the toSv policy the
\* only packet that was due
BothPoliciesDropped ==
  /\ tosim_drops # {}
  /\ MdHeld # {}
  /\ vmw_policy_drops # {}
  /\ Len(vmw_drained) = Cardinality(vmw_policy_drops)

\* how often the packet id occurs in a sequence of packets
Occurrences(packets, id) == Cardinality({ i \in 1..Len(packets) : packets[i].id = id })

\* C16: of the packets in the VMW delayed map, a SOKF hands the due ones to the
\* builder and leaves the others in the map; every due packet is either dropped
\* by the policy or in exactly one batch pushed to the write queue in that
\* SOKF, so that (due) = (in batches) + (dropped) and (before) = (due) +
\* (still delayed); between SOKFs a packet enters the map only by being sent
\* up, and no batch gains a packet.
UplinkConservation ==
  [][ /\ vmw_k_frame_count_' # vmw_k_frame_count_ =>
           LET pushed == SubSeq(vmw_write_queue_', Len(vmw_write_queue_) + 1,
                                Len(vmw_write_queue_'))
               packets == PacketsTo(pushed, "CP") \o PacketsTo(pushed, "DP")
           IN  /\ IsPrefix(vmw_write_queue_, vmw_write_queue_')
               /\ \A i \in 1..Len(pushed) : pushed[i].kind = "batch"
               /\ Len(packets) + Cardinality(vmw_policy_drops') = Len(vmw_drained')
               /\ Len(vmw_drained') + Len(vmw_write_delayed_') = Len(vmw_write_delayed_)
               /\ \A i \in 1..Len(vmw_drained') :
                    LET id == vmw_drained'[i].second.id
                    IN  Occurrences(packets, id) = IF id \in vmw_policy_drops' THEN 0 ELSE 1
      /\ vmw_k_frame_count_' = vmw_k_frame_count_ =>
           /\ BatchedPackets(vmw_write_queue_') \subseteq BatchedPackets(vmw_write_queue_)
           /\ \/ vmw_write_delayed_' = vmw_write_delayed_
              \/ /\ Len(vmw_write_delayed_') = Len(vmw_write_delayed_) + 1
                 /\ Seconds(vmw_write_delayed_) \subseteq Seconds(vmw_write_delayed_')
                 /\ next_id' = next_id + 1 ]_vars

\* a SOKF made two packets due: the policy dropped one, the other is in a batch
OneDroppedOneBatched ==
  /\ Len(vmw_drained) = 2
  /\ Cardinality(vmw_policy_drops) = 1
  /\ Cardinality(VmwBatched) = 1
  /\ vmw_write_delayed_ = << >>

\* C17: RouteUplinkPassThroughMessage changes no state when CP_VMW_DEST_ADDRESS
\* is a sentinel and otherwise appends exactly one CP-destined pass-through
\* message for its buffer to the VMW write queue; RouteDownlinkPassThroughMessage
\* changes no state when KBA_DEST_ADDRESS is a sentinel and otherwise appends
\* exactly one message for its buffer to the KBA write queue.
SentinelPassThroughDrop ==
  [][ /\ ( /\ kba_reads' # kba_reads
           /\ route_calls' = << RouteCall("RouteUplinkPassThroughMessage", next_id) >> )
         => IF ~dest_valid["CP_VMW_DEST_ADDRESS"]
            THEN UNCHANGED << mdVars, vmwVars, kbaVars, sokfVars >>
            ELSE /\ vmw_write_queue_' =
                      Append(vmw_write_queue_,
                             [ destination |-> "CP", kind |-> "passthru",
                               packets |-> << >>, id |-> next_id ])
                 /\ UNCHANGED << mdVars, kbaVars, sokfVars, vmw_write_delayed_ >>
      /\ ( /\ vmw_reads' # vmw_reads
           /\ route_calls' # << >>
           /\ route_calls'[Len(route_calls')] =
                RouteCall("RouteDownlinkPassThroughMessage", next_id) )
         => IF ~dest_valid["KBA_DEST_ADDRESS"]
            THEN UNCHANGED kbaVars
            ELSE /\ kba_write_queue_' = Append(kba_write_queue_, [ id |-> next_id ])
                 /\ UNCHANGED kba_socket_open ]_vars

\* with a sentinel for the CP VMW address a pass-through message from the KBA
\* was routed and left the VMW endpoint with nothing queued and nothing sent
UplinkPassThroughDropped ==
  /\ ~dest_valid["CP_VMW_DEST_ADDRESS"]
  /\ kba_reads = 1
  /\ route_calls = << RouteCall("RouteUplinkPassThroughMessage", 1) >>
  /\ vmw_write_queue_ = << >>
  /\ vmw_sends = << >>

\* C18: no send is ever initiated to a destination whose address is a
\* sentinel: no batch goes out to a VMW plane, and no ITM to the MD, whose
\* address is INVALID_IP or whose port is INVALID_PORT.
SentinelDisablesPeer ==
  /\ \A i \in 1..Len(vmw_sends) :
       /\ vmw_sends[i].destination = "CP" => dest_valid["CP_VMW_DEST_ADDRESS"]
       /\ vmw_sends[i].destination = "DP" => dest_valid["DP_VMW_DEST_ADDRESS"]
  /\ md_sends # << >> => dest_valid["MISSION_DATA_DEST_ADDRESS"]
  /\ kba_sends # << >> => dest_valid["KBA_DEST_ADDRESS"]

RECURSIVE AllTo(_, _)
AllTo(msgs, destination) ==
  msgs = << >> \/ ( Head(msgs).destination = destination /\ AllTo(Tail(msgs), destination) )

InEmissionOrder(msgs) ==
  \E a, b, c \in 0..Len(msgs) :
    /\ a <= b /\ b <= c
    /\ c - b <= 1
    /\ Len(msgs) - c <= 1
    /\ AllTo(SubSeq(msgs, 1, a), "CP")
    /\ AllTo(SubSeq(msgs, a + 1, b), "DP")
    /\ AllTo(SubSeq(msgs, b + 1, c), "CP")
    /\ AllTo(SubSeq(msgs, c + 1, Len(msgs)), "DP")

\* C20: the batches one SOKF pushes to the VMW write queue appear in the
\* order: all CP size-overflow flushes, all DP size-overflow flushes, then the
\* remaining CP batch and the remaining DP batch of finalize, whatever the mix
\* of control-plane and data-plane packets.
BuilderEmissionOrder ==
  [][ vmw_k_frame_count_' # vmw_k_frame_count_
        => InEmissionOrder(SubSeq(vmw_write_queue_', Len(vmw_write_queue_) + 1,
                                  Len(vmw_write_queue_'))) ]_vars

\* the ids in a sequence of ids
Ids(seq) == { seq[i] : i \in 1..Len(seq) }

\* 1 for TRUE, 0 for FALSE
Count(b) == IF b THEN 1 ELSE 0

\* C21: RouteDownlinkMPLSPacket sends a sub-packet to the MD endpoint, as the
\* ITM bytes without the 4 bytes of the MPLS header, exactly when its
\* destination node is in the bypass-TPN set and its payload type is 0, 1 or
\* 3, and then does not consult the toSim policy; otherwise it applies the
\* toSim policy exactly once, for the packet's payload type, and passes the
\* packet intact to the TPN endpoint exactly when the policy does not drop it.
\* Every sub-packet routed has exactly one of the outcomes MD, TPN, dropped.
DownlinkRoutingDecision ==
  [][ vmw_reads' # vmw_reads
        => /\ Len(route_outcomes') =
                Cardinality({ k \in 1..Len(route_calls') :
                                route_calls'[k].fn = "RouteDownlinkMPLSPacket" })
           /\ \A k \in 1..Len(route_outcomes') :
                LET o == route_outcomes'[k]
                    sub == vmw_last_dg'.subs[o.id - next_id]
                    to_md == /\ MISSION_DATA_BYPASS_TPN[sub.dstnid]
                             /\ sub.payload_type \in {0, 1, 3}
                    held == o.id \in { md_write_queue_'[i].id : i \in 1..Len(md_write_queue_') }
                                     \cup { md_write_delayed_'[i].second.id :
                                              i \in 1..Len(md_write_delayed_') }
                    at_tpn == o.id \in Ids(tpn_downlink')
                    dropped == o.id \in tosim_drops'
                IN  /\ route_calls'[k] = RouteCall("RouteDownlinkMPLSPacket", o.id)
                    /\ (o.to = "md_interface_") = to_md
                    /\ held = to_md
                    /\ to_md => o.bytes = sub.len - 4 /\ o.applied = << >>
                    /\ ~to_md => /\ o.applied = << sub.payload_type >>
                                 /\ at_tpn = ~dropped
                                 /\ (o.to = "tpn_interface_") = at_tpn
                                 /\ at_tpn => o.bytes = sub.len
                    /\ Count(held) + Count(at_tpn) + Count(dropped) = 1 ]_vars

\* a batch for the bypass node was routed: the toSim policy dropped its
\* control-plane sub-packet, its mission-data sub-packet of type 3 went to the
\* MD endpoint as a 48-byte ITM
BypassNodeBothWays ==
  /\ Len(route_outcomes) = 2
  /\ \A n \in 1..2 : vmw_last_dg.subs[n].dstnid = BypassNode
  /\ route_outcomes[1].to = "return"
  /\ route_outcomes[1].applied = << 2 >>
  /\ route_outcomes[2].to = "md_interface_"
  /\ route_outcomes[2].bytes = 48
  /\ tpn_downlink = << >>

\* the checks the MD endpoint makes on a datagram: room for the 5-byte ITM
\* header, the payload size rule, and a mission-data payload type
MdDatagramAcceptable(dg) ==
  /\ dg.size >= 5
  /\ IF dg.vitm THEN dg.vitm_in_bounds ELSE dg.size - 5 = FIXED_ITM_PAYLOAD_SIZE
  /\ dg.payload_type \in {0, 1, 3}

\* C22: for a datagram received on the MD endpoint RouteUplinkITM is called,
\* once, exactly when the byte count is at least 5, the payload length is
\* FIXED_ITM_PAYLOAD_SIZE for a fixed ITM or within the VITM bounds for a VITM,
\* and the payload type is 0, 1 or 3; a rejected datagram routes nothing and
\* changes no write queue and no delayed map; in both cases the next receive
\* is posted.
MdReceiveValidation ==
  [][ md_reads' # md_reads
        => /\ md_read_posted'
           /\ md_socket_open'
           /\ IF MdDatagramAcceptable(md_last_dg')
              THEN /\ Len(uplink_itm_calls') = 1
                   /\ uplink_itm_calls'[1].id = next_id
                   /\ Len(vmw_write_delayed_') = Len(vmw_write_delayed_) + 1
                   /\ next_id \in { p.id : p \in Seconds(vmw_write_delayed_') }
              ELSE /\ uplink_itm_calls' = << >>
                   /\ UNCHANGED << md_write_queue_, md_write_delayed_, md_sends,
                                   vmw_write_queue_, vmw_write_delayed_, vmw_sends,
                                   kba_write_queue_, kba_sends >> ]_vars

\* an ITM that is not mission data was rejected after a VITM had been
\* accepted: the VITM waits in the delayed map, the next receive is posted
NonMissionDataRejected ==
  /\ md_reads = 2
  /\ md_last_dg.size = FIXED_ITM_SIZE
  /\ md_last_dg.payload_type = 2
  /\ uplink_itm_calls = << >>
  /\ Len(vmw_write_delayed_) = 1
  /\ vmw_write_delayed_[1].second.size
       = PACKET_SIZE_FIELD + MPLS_HEADER_SIZE + 30
  /\ md_read_posted

\* C23 as stated: the source node the MD endpoint passes to RouteUplinkITM is
\* the configured local node id for every accepted datagram, whatever the
\* bytes of its ITM header, and the destination is the header's destination
\* node id.
UplinkSourceIsLocalNode ==
  [][ md_reads' # md_reads
        => \A k \in 1..Len(uplink_itm_calls') :
             /\ uplink_itm_calls'[k].source_node = LOCAL_NODE_ID
             /\ uplink_itm_calls'[k].dest_node = md_last_dg'.dstnid ]_vars

\* C23, amended: the source node the MD endpoint passes to RouteUplinkITM is
\* the sourceNode byte, the fifth byte of the datagram's ITM header, whatever
\* the configured local node id, and the destination is the header's
\* destination node id; the packet is stored with the delay of that route.
UplinkSourceFromHeader ==
  [][ md_reads' # md_reads
        => \A k \in 1..Len(uplink_itm_calls') :
             /\ uplink_itm_calls'[k].source_node = md_last_dg'.sourceNode
             /\ uplink_itm_calls'[k].dest_node = md_last_dg'.dstnid
             /\ \E p \in Seconds(vmw_write_delayed_') :
                  /\ p.id = uplink_itm_calls'[k].id
                  /\ p.enq_delay = ItmDelayGet(itm_delay_, md_last_dg'.sourceNode,
                                               md_last_dg'.dstnid) ]_vars

\* an ITM with a foreign sourceNode byte was accepted under a table that gives
\* the routes of the local node two frames and those of the foreign node one:
\* it is stored with a delay of one frame
ForeignSourceRouted ==
  /\ Len(uplink_itm_calls) = 1
  /\ uplink_itm_calls[1].source_node = OtherNode
  /\ ItmDelayGet(itm_delay_, LOCAL_NODE_ID, uplink_itm_calls[1].dest_node) = U32(0, 2)
  /\ \E p \in Seconds(vmw_write_delayed_) :
       p.id = uplink_itm_calls[1].id /\ p.enq_delay = One32

\* the sub-packets the last VMW read handler gave the MD endpoint whose route
\* from the local node is, or is not, without delay
MdSendsAt(outcomes, dg, first_id, direct) ==
  SelectSeq(outcomes,
            LAMBDA o : /\ o.to = "md_interface_"
                       /\ (ItmDelayGet(itm_delay_, LOCAL_NODE_ID,
                                       dg.subs[o.id - first_id].dstnid) = Zero32) = direct)

SpecifiedFailure(dg) ==
  \/ dg.size < 8
  \/ dg.size # dg.message_length
  \/ dg.size < 8 + 2
  \/ \E i \in 1..dg.num_packets :
       \/ i > Len(dg.subs)
       \/ BytesThrough(dg, i - 1) + 2 > dg.size
       \/ dg.subs[i].len < 9
       \/ BytesThrough(dg, i) > dg.size
       \/ ~SizeRule(dg.subs[i])

\* C25: Perform returns the empty vector exactly for the failures of the
\* specified procedure; otherwise it returns num_packets windows in wire
\* order, window n being the sub_len bytes that follow the n-th length field,
\* inside the input and after the window before it.  Bytes after the last
\* sub-packet do not make it fail.
ParserResult ==
  parser_called
    => LET dg == parser_input
           w == parser_result
       IN  IF SpecifiedFailure(dg)
           THEN w = << >>
           ELSE /\ Len(w) = dg.num_packets
                /\ \A n \in 1..Len(w) :
                     /\ w[n].size = dg.subs[n].len
                     /\ w[n].first = BytesThrough(dg, n) - dg.subs[n].len
                     /\ w[n].first >= 0
                     /\ w[n].first + w[n].size <= dg.size
                     /\ n > 1 => w[n].first = w[n - 1].first + w[n - 1].size + 2

\* Perform returned the two windows of a message that has two extraneous
\* bytes after its second sub-packet
TwoWindowsBeforeExtraneousBytes ==
  /\ parser_called
  /\ parser_input.num_packets = 2
  /\ Len(parser_input.subs) = 2
  /\ parser_input.size = BytesThrough(parser_input, 2) + 2
  /\ Len(parser_result) = 2
  /\ parser_result[1] = ConstBuffer(12, 52)
  /\ parser_result[2] = ConstBuffer(66, 30)

\* one of the num_packets sub-packets of dg fails a check of the parser
SubPacketFails(dg) ==
  /\ dg.size >= 8 + 2
  /\ dg.size = dg.message_length
  /\ SpecifiedFailure(dg)

\* sub-packet n of dg is in order and so are those before it
InOrderThrough(dg, n) ==
  \A i \in 1..n : /\ i <= Len(dg.subs)
                  /\ dg.subs[i].len >= 9
                  /\ BytesThrough(dg, i) <= dg.size
                  /\ SizeRule(dg.subs[i])

\* C26: when a sub-packet of a received batch fails a check of the parser, the
\* read handler routes none of the batch's sub-packets, the ones in order
\* before the failing one included, and passes nothing through, a sub-packet
\* for the HPL node before the failing one notwithstanding.
AllOrNothingBatch ==
  [][ vmw_reads' # vmw_reads /\ SubPacketFails(vmw_last_dg')
        => /\ route_calls' = << >>
           /\ route_outcomes' = << >>
           /\ tpn_downlink' = << >>
           /\ tosim_drops' = {}
           /\ UNCHANGED << md_write_queue_, md_write_delayed_, md_sends,
                           kba_write_queue_, kba_sends >> ]_vars

\* a batch whose first sub-packet is in order and for the HPL node and whose
\* second one fails was read after a batch that was passed through: the
\* only pass-through message is the one of the earlier batch
HplThenFailingSubPacket ==
  /\ vmw_reads = 2
  /\ SubPacketFails(vmw_last_dg)
  /\ InOrderThrough(vmw_last_dg, 1)
  /\ vmw_last_dg.subs[1].dstnid = HPL_NODE_ID
  /\ route_calls = << >>
  /\ Len(kba_sends) = 1
  /\ TotalMplsPacketsConverted = 1
  /\ TotalInvalidMplsPacketsDiscarded = 1

\* C27: whenever Perform returns an empty vector the parser has logged a
\* warning or an error during the call, and whenever Process succeeds the
\* vector returned is not empty.
ParserLoggingContract ==
  parser_called
    => /\ parser_result = << >>
            => \E n \in 1..Len(parser_log) : parser_log[n] \in { "warn", "error" }
       /\ Process(parser_input) => parser_result # << >>

\* the dedicated thread runs the closure that calls fn
Runs(fn) ==
  /\ io_service_ # << >>
  /\ Head(io_service_).fn = fn
  /\ io_service_' = Tail(io_service_)

\* the entries of the ItmDelay table for the routes other than (svnode, simnode)
OtherRouteDelays(itm_delay, svnode, simnode) ==
  { r \in itm_delay.route_delays : r.source_node # svnode \/ r.dest_node # simnode }

\* the policies after a command whose drop field is field: as before when it
\* is not set, and else the payload type named has the policy named and
\* every other payload type the policy it had
PolicySet(before, after, field) ==
  IF field = << >>
  THEN after = before
  ELSE /\ PolicyOf(after, field[1].pt) =
            [ algo |-> field[1].algo, interval |-> field[1].interval ]
       /\ \A pt \in PayloadTypes \ { field[1].pt } :
            PolicyOf(after, pt) = PolicyOf(before, pt)
       /\ \A p, q \in after : p.pt = q.pt => p = q

\* C28: ChangeConfig_i applies each of the five fields of the command exactly
\* when it is set: the checksum switch of the TPN interface, the default delay
\* of ItmDelay, the delay of one route, the toSim policy and the toSv policy
\* of one payload type; what belongs to a field that is not set stays as it
\* is, and so does everything when no field is set.  No configuration command
\* changes a frame counter, a write queue or a delayed map, so that a packet
\* in a delayed map keeps the frame it is due at.
PartialConfigApplication ==
  [][ /\ Runs("ChangeConfig_i")
        => LET cmd_data == Head(io_service_).cmd_data
           IN  /\ udp_checksum_' = IF cmd_data.udpchksm # << >>
                                   THEN cmd_data.udpchksm[1] ELSE udp_checksum_
               /\ itm_delay_'.default_delay =
                    IF cmd_data.itmdelay # << >>
                    THEN cmd_data.itmdelay[1] ELSE itm_delay_.default_delay
               /\ IF cmd_data.miaroutedelay # << >>
                  THEN LET info == cmd_data.miaroutedelay[1]
                       IN  /\ ItmDelayGet(itm_delay_', info.svnode, info.simnode) = info.delay
                           /\ OtherRouteDelays(itm_delay_', info.svnode, info.simnode) =
                                OtherRouteDelays(itm_delay_, info.svnode, info.simnode)
                  ELSE itm_delay_'.route_delays = itm_delay_.route_delays
               /\ PolicySet(tosim_drop_policies_, tosim_drop_policies_', cmd_data.miadroptosim)
               /\ PolicySet(tosv_drop_policies_, tosv_drop_policies_', cmd_data.miadroptosv)
               /\ cmd_data = NoCommandData => UNCHANGED configVars
      /\ Runs("ChangeConfig_i") \/ Runs("ChangeConfigToDefault_i")
        => UNCHANGED << mdVars, vmwVars, kbaVars >> ]_vars

\* an ITM entered the delayed map of the MD endpoint in frame 1 while the
\* delay of its route was two frames; a command that set the delay of the
\* route to one frame has run since, and the ITM is still due at frame 3
DelayedUnderEarlierConfig ==
  /\ Len(md_write_delayed_) = 2
  /\ md_write_delayed_[1].first = U32(0, 3)
  /\ md_write_delayed_[1].second.enq_delay = U32(0, 2)
  /\ md_k_frame_count_ = One32
  /\ itm_delay_.default_delay = U32(0, 2)
  /\ ItmDelayGet(itm_delay_, LOCAL_NODE_ID, BypassNode) = One32
  /\ io_service_ = << >>

\* C29: Start, ChangeConfigToDefault and ChangeConfig only add a closure to
\* io_service_; the configuration changes only in a step of the dedicated
\* thread that runs such a closure, and that step changes nothing else; the
\* steps that work on frame counters, write queues and delayed maps are the
\* handlers the dedicated thread runs, which leave the configuration alone, so
\* that every ITM of a batch is delayed by the table the handler started with.
ExecutorConfinement ==
  [][ /\ io_posts' # io_posts
        => /\ \E fn \in { "Start_i", "ChangeConfigToDefault_i", "ChangeConfig_i" } :
                \E cmd_data \in ConfigCommands :
                  io_service_' = Append(io_service_, PostedTask(fn, cmd_data))
           /\ UNCHANGED << nonConfigVars, configVars >>
      /\ configVars' # configVars
        => /\ Runs("ChangeConfig_i") \/ Runs("ChangeConfigToDefault_i")
           /\ UNCHANGED nonConfigVars
      /\ nonConfigVars' # nonConfigVars
        => /\ UNCHANGED << configVars, io_posts >>
           /\ io_service_' # io_service_ => Runs("Start_i")
      /\ vmw_reads' # vmw_reads
        => \A i \in 1..Len(md_write_delayed_') :
             md_write_delayed_'[i].second.id >= next_id
               => md_write_delayed_'[i].second.enq_delay =
                    ItmDelayGet(itm_delay_, LOCAL_NODE_ID, BypassNode) ]_vars

\* a batch was read while a ChangeConfig closure that sets the delay of its
\* route to one frame waited in io_service_: both ITMs of the batch were
\* delayed by the two frames of the table in force, and the closure still waits
BatchReadBeforePostedChange ==
  /\ Len(md_write_delayed_) = 2
  /\ \A i \in 1..2 : md_write_delayed_[i].second.enq_delay = U32(0, 2)
  /\ ItmDelayGet(itm_delay_, LOCAL_NODE_ID, BypassNode) = U32(0, 2)
  /\ Len(io_service_) = 1
  /\ io_service_[1].fn = "ChangeConfig_i"
  /\ io_service_[1].cmd_data.miaroutedelay # << >>
  /\ io_service_[1].cmd_data.miaroutedelay[1].delay = One32

\* a send of the interface fn has completed with an error
SendFailed(fn) == \E r \in send_errors : r.fn = fn

\* after the failure of a send the interface has its socket closed, keeps the
\* item it failed to send at the front of its write queue and has no send
\* outstanding; the step of the failure starts no send
StoppedAfterError(fn, write_queue, write_queue_after, sends_after, socket_open_after) ==
  SendFailed(fn)'
    => /\ ~socket_open_after
       /\ write_queue # << >>
       /\ write_queue_after # << >>
       /\ write_queue_after[1] = write_queue[1]
       /\ sends_after = << >>

\* C30: once a send of an endpoint has completed with an error, cancelled or
\* other, the endpoint has closed its socket, keeps the front item in its
\* write queue and never initiates a send again, whatever is enqueued or
\* drained from the delayed map afterwards; the error is logged as fatal
\* exactly when it is not a cancellation.
ErrorDisciplineOnSend ==
  [][ /\ StoppedAfterError("MDInterface", md_write_queue_, md_write_queue_',
                           md_sends', md_socket_open')
      /\ StoppedAfterError("VMWInterface", vmw_write_queue_, vmw_write_queue_',
                           vmw_sends', vmw_socket_open')
      /\ StoppedAfterError("MPLSInterface", kba_write_queue_, kba_write_queue_',
                           kba_sends', kba_socket_open')
      /\ \A r \in send_errors' :
           /\ r.ec \in { "operation_canceled", "other_error" }
           /\ r.level = "fatal" <=> r.ec # "operation_canceled" ]_vars

\* a send of the MD endpoint was cancelled; the ITM it was sending is still at
\* the front of the write queue, behind it waits an ITM that a SOKF took out
\* of the delayed map, no send is outstanding and nothing was logged as fatal
QueuedBehindFailedSend ==
  /\ send_errors = { [ fn |-> "MDInterface", ec |-> "operation_canceled", level |-> "info" ] }
  /\ Len(md_write_queue_) = 2
  /\ md_write_queue_[1].enq_delay = Zero32
  /\ md_write_queue_[2].enq_delay = One32
  /\ md_write_delayed_ = << >>
  /\ md_sends = << >>
  /\ ~md_socket_open

\* the buffer id is in a write queue of plain buffers
Queued(write_queue, id) == \E i \in 1..Len(write_queue) : write_queue[i].id = id

\* the buffer id is in the VMW write queue, as a pass-through message or as
\* an MPLS packet inside a batch message
VmwQueued(id) ==
  \/ Queued(vmw_write_queue_, id)
  \/ \E p \in BatchedPackets(vmw_write_queue_) : p.id = id

\* a write queue that is not empty has its front item being sent
Serviced(write_queue, sends) == write_queue # << >> => sends = << write_queue[1] >>

\* an item leaves a write queue only at the front, and only when its send
\* was outstanding
LeavesWhenSent(write_queue, write_queue_after, sends) ==
  ~IsPrefix(write_queue, write_queue_after)
    => /\ write_queue # << >>
       /\ sends = << write_queue[1] >>
       /\ IsPrefix(Tail(write_queue), write_queue_after)

\* C31: when no send completes with an error and every send that was started
\* completes, an endpoint whose write queue is not empty has the send of its
\* front item outstanding, an item leaves a write queue only through the
\* completion of its send, and every buffer pushed onto a write queue (by a
\* direct send request, by a SOKF drain or inside a batch of the builder) is
\* eventually out of it again.
WriteQueueProgress ==
  /\ [](/\ Serviced(md_write_queue_, md_sends)
        /\ Serviced(vmw_write_queue_, vmw_sends)
        /\ Serviced(kba_write_queue_, kba_sends))
  /\ [][ /\ LeavesWhenSent(md_write_queue_, md_write_queue_', md_sends)
         /\ LeavesWhenSent(vmw_write_queue_, vmw_write_queue_', vmw_sends)
         /\ LeavesWhenSent(kba_write_queue_, kba_write_queue_', kba_sends) ]_vars
  /\ \A id \in 1..MaxProgressPackets :
       /\ Queued(md_write_queue_, id) ~> ~Queued(md_write_queue_, id)
       /\ VmwQueued(id) ~> ~VmwQueued(id)
       /\ Queued(kba_write_queue_, id) ~> ~Queued(kba_write_queue_, id)

\* a pass-through message is being sent by the VMW endpoint and, behind it in
\* the write queue, waits a batch that a SOKF drain made the builder push
BatchBehindOutstandingSend ==
  /\ Len(vmw_write_queue_) = 2
  /\ vmw_write_queue_[1].kind = "passthru"
  /\ vmw_write_queue_[2].kind = "batch"
  /\ vmw_write_queue_[2].packets # << >>
  /\ vmw_sends = << vmw_write_queue_[1] >>
  /\ vmw_socket_open

\* the ids of the drained entries whose payload type is not a mission-data
\* type, in the order of the drain
AskedFor(drained) ==
  LET others == SelectSeq(drained,
                          LAMBDA e : ~IsMissionDataPayloadType(e.second.payload_type))
  IN  [ i \in 1..Len(others) |-> others[i].second.id ]

\* C32: in the drain of a SOKF the builder asks the toSv policy once for each
\* drained packet whose payload type is not 0, 1 or 3, in the order of the
\* drain, and for no other packet; no step that is not a SOKF asks it, the
\* enqueueing of a packet in particular; and a packet is dropped only if the
\* policies as they are when the SOKF arrives can drop its payload type,
\* whatever they were when the packet was put into the delayed map.
ToSvConsultation ==
  [][ IF vmw_k_frame_count_' # vmw_k_frame_count_
      THEN /\ tosv_applied' = AskedFor(vmw_drained')
           /\ \A id \in vmw_policy_drops' :
                \E i \in 1..Len(vmw_drained') :
                  /\ vmw_drained'[i].second.id = id
                  /\ TRUE \in apply(tosv_drop_policies_,
                                    vmw_drained'[i].second.payload_type)
           /\ \A i \in 1..Len(vmw_drained') :
                LET p == vmw_drained'[i].second
                IN  /\ p.enq_frame # vmw_k_frame_count_' => p \in Seconds(vmw_write_delayed_)
                    /\ p.id \notin vmw_policy_drops'
                         => p \in BatchedPackets(vmw_write_queue_')
      ELSE tosv_applied' = tosv_applied ]_vars

\* a control-plane packet of payload type 2 was put into the delayed map for
\* two frames before the first SOKF, when no policy could drop it; a command
\* that came later gave its type a dropping policy, and the drain of the
\* second SOKF asked the policy about it and dropped it, next to a
\* mission-data packet about which the policy was not asked
DroppedUnderLaterPolicy ==
  /\ Len(vmw_drained) = 2
  /\ \E i, j \in 1..2 :
       /\ vmw_drained[i].second.payload_type = 2
       /\ vmw_drained[i].second.enq_delay = U32(0, 2)
       /\ vmw_drained[i].second.enq_frame = Zero32
       /\ IsMissionDataPayloadType(vmw_drained[j].second.payload_type)
       /\ tosv_applied = << vmw_drained[i].second.id >>
       /\ vmw_policy_drops = { vmw_drained[i].second.id }
  /\ vmw_k_frame_count_ = U32(0, 2)
  /\ PolicyOf(tosv_drop_policies_, 2).algo = "Random"

\* the batches for one destination among msgs, in the order they were pushed
BatchesTo(msgs, destination) ==
  SelectSeq(msgs, LAMBDA m : m.kind = "batch" /\ m.destination = destination)

\* of the batches of one plane that one drain pushed, every one but the last
\* was flushed when its accumulator reached the limit, and the last holds
\* what finalize found pending: at least one packet and no more than the limit
FlushedAtLimit(batches, limit) ==
  \A i \in 1..Len(batches) :
    /\ Len(batches[i].packets) <= limit
    /\ Len(batches[i].packets) >= 1
    /\ i < Len(batches) => Len(batches[i].packets) = limit

\* C33: no batch in the VMW write queue holds more than
\* VMW_COMMON_MAX_PACKETS_PER_TIMESLOT sub-packets; in the batches one SOKF
\* pushes for a plane, an accumulator is flushed as soon as it holds that many
\* packets, and finalize flushes what is left, so that every drained packet
\* the policy did not drop is in one of the batches pushed by that SOKF and
\* none stays behind in the builder.
TimeslotLimit ==
  [][ /\ \A i \in 1..Len(vmw_write_queue_') :
           Len(vmw_write_queue_'[i].packets) <= VMW_COMMON_MAX_PACKETS_PER_TIMESLOT
      /\ vmw_k_frame_count_' # vmw_k_frame_count_ =>
           LET pushed == SubSeq(vmw_write_queue_', Len(vmw_write_queue_) + 1,
                                Len(vmw_write_queue_'))
           IN  /\ FlushedAtLimit(BatchesTo(pushed, "CP"),
                                 VMW_COMMON_MAX_PACKETS_PER_TIMESLOT)
               /\ FlushedAtLimit(BatchesTo(pushed, "DP"),
                                 VMW_COMMON_MAX_PACKETS_PER_TIMESLOT)
               /\ PacketsTo(pushed, "CP") = KeptFor(vmw_drained', vmw_policy_drops', FALSE)
               /\ PacketsTo(pushed, "DP") = KeptFor(vmw_drained', vmw_policy_drops', TRUE)
    ]_vars

\* under a limit of 2, one SOKF drained three data-plane packets: the builder
\* pushed a batch of two when the second was added, and finalize a batch of one
LimitReachedThenFinalize ==
  /\ VMW_COMMON_MAX_PACKETS_PER_TIMESLOT = 2
  /\ Len(vmw_drained) = 3
  /\ \A i \in 1..3 : IsMissionDataPayloadType(vmw_drained[i].second.payload_type)
  /\ Len(vmw_write_queue_) = 2
  /\ Len(vmw_write_queue_[1].packets) = 2
  /\ Len(vmw_write_queue_[2].packets) = 1
  /\ vmw_write_queue_[2].packets[1] = vmw_drained[3].second

\* the ITM bytes a prepared packet keeps of a buffer of buf_size bytes: all
\* but the last one for a fixed-size ITM of payload type 0, 1 or 3
KeptBytes(p) ==
  IF ~p.vitm /\ p.payload_type \in {0, 1, 3} THEN p.buf_size - 1 ELSE p.buf_size

\* the packets waiting in the delayed map or handed to the builder
Prepared ==
  { vmw_write_delayed_[i].second : i \in 1..Len(vmw_write_delayed_) }
    \cup { vmw_drained[i].second : i \in 1..Len(vmw_drained) }

\* C34 (uplink packet synthesis length): a packet SendUplinkITM prepared from
\* a buffer of L bytes keeps L - 1 ITM bytes if the ITM is fixed-size with
\* payload type 0, 1 or 3 and all L bytes otherwise, its 2-byte prefix is 4
\* plus the bytes kept and the packet is 2 bytes longer than the prefix says;
\* a packet SendUplinkMPLSPacket prepared has the length of the MPLS packet
\* as its prefix and 2 bytes more than that in all.
UplinkSynthesisLength ==
  \A p \in Prepared :
    /\ p.fn = "SendUplinkITM" =>
         /\ p.packet_size = MPLS_HEADER_SIZE + KeptBytes(p)
         /\ p.size = p.packet_size + 2
    /\ p.fn = "SendUplinkMPLSPacket" =>
         /\ p.packet_size = p.buf_size
         /\ p.size = p.buf_size + 2

\* a clipped fixed-size mission-data ITM and an unclipped MPLS packet have
\* both been prepared
ClippedAndUnclippedPrepared ==
  /\ \E p \in Prepared : /\ p.fn = "SendUplinkITM" /\ ~p.vitm /\ p.payload_type = 3
                          /\ p.buf_size = FIXED_ITM_SIZE /\ p.packet_size = 51
  /\ \E p \in Prepared : /\ p.fn = "SendUplinkMPLSPacket" /\ p.packet_size = 300

\* the ids of the uplink packets in the batches of the VMW write queue
BatchedIds(write_queue) == { p.id : p \in BatchedPackets(write_queue) }

\* the buffer handed over in this step became the last element stored under
\* its key in the delayed map, the key being counter + delay
EnteredDelayed(write_delayed, write_delayed_after, k_frame_count, id) ==
  \E i \in 1..Len(write_delayed_after) :
    /\ write_delayed_after[i].second.id = id
    /\ write_delayed_after[i].second.enq_frame = k_frame_count
    /\ write_delayed_after[i].first =
         Add32(k_frame_count, write_delayed_after[i].second.enq_delay)
    /\ write_delayed = SubSeq(write_delayed_after, 1, i - 1)
                         \o SubSeq(write_delayed_after, i + 1, Len(write_delayed_after))

\* C35 (no synchronous uplink batching): a step that hands a buffer to the VMW
\* endpoint puts it into the delayed map under counter + delay, whatever the
\* delay, and leaves the write queue and the outstanding send alone; a packet
\* appears in a batch of the write queue only in a step that processes a
\* SOKF, having been in the delayed map before that step; a packet that was
\* enqueued with delay 0 leaves the map at the first SOKF processed after it
\* and is then in a batch unless the policy dropped it.  On the MD endpoint a
\* buffer with delay 0 is on the write queue at the end of the very step
\* that handed it over.
NoSynchronousUplinkBatching ==
  [][ /\ ( next_id' = next_id + 1 /\ md_write_queue_' = md_write_queue_
                                  /\ md_write_delayed_' = md_write_delayed_ )
         => /\ EnteredDelayed(vmw_write_delayed_, vmw_write_delayed_',
                              vmw_k_frame_count_, next_id)
            /\ vmw_write_queue_' = vmw_write_queue_
            /\ vmw_sends' = vmw_sends
      /\ \A id \in BatchedIds(vmw_write_queue_') \ BatchedIds(vmw_write_queue_) :
           /\ valid_sokfs' # valid_sokfs
           /\ \E p \in Seconds(vmw_write_delayed_) : p.id = id
      /\ valid_sokfs' # valid_sokfs
         => \A p \in Seconds(vmw_write_delayed_) :
              p.enq_delay = Zero32
                => /\ p \notin Seconds(vmw_write_delayed_')
                   /\ p.id \in vmw_policy_drops' \/ p.id \in BatchedIds(vmw_write_queue_')
      /\ ( next_id' = next_id + 1 /\ vmw_write_delayed_' = vmw_write_delayed_ )
         => \/ /\ md_write_queue_' # << >>
               /\ md_write_queue_' = Append(md_write_queue_, md_write_queue_'[Len(md_write_queue_')])
               /\ md_write_queue_'[Len(md_write_queue_')].id = next_id
               /\ md_write_queue_'[Len(md_write_queue_')].enq_delay = Zero32
               /\ md_write_delayed_' = md_write_delayed_
            \/ /\ md_write_queue_' = md_write_queue_
               /\ EnteredDelayed(md_write_delayed_, md_write_delayed_',
                                 md_k_frame_count_, next_id)
    ]_vars

\* after a SOKF, one packet that was sent up with delay 0 before it is in a
\* batch of the write queue, and another sent up with delay 0 after it
\* waits in the delayed map
ZeroDelayWaitsForSokf ==
  /\ valid_sokfs # << >>
  /\ \E p \in BatchedPackets(vmw_write_queue_) :
       p.enq_delay = Zero32 /\ p.enq_frame = Zero32
  /\ \E p \in Seconds(vmw_write_delayed_) :
       p.enq_delay = Zero32 /\ p.enq_frame = vmw_k_frame_count_

\* C36 (no empty batch): every batch message in the VMW write queue holds at
\* least one MPLS packet.
NoEmptyBatch ==
  \A i \in 1..Len(vmw_write_queue_) :
    vmw_write_queue_[i].kind = "batch" => Len(vmw_write_queue_[i].packets) >= 1

\* what a byte accumulator is documented to hold: the bytes of the pending
\* packets and MPLS_NUM_BYTES_SIZE for each of them
PendingBytes(pending_packets) ==
  BatchBytes(pending_packets, 1, Len(pending_packets))
    + MPLS_NUM_BYTES_SIZE * Len(pending_packets)

\* both accumulators of a builder agree with its pending vectors
AccumulatorsAgree(b) ==
  /\ b.pending_control_packets_size_ = PendingBytes(b.pending_control_packets_)
  /\ b.pending_data_packets_size_ = PendingBytes(b.pending_data_packets_)

\* the builder of the last HandleWriteDelayed after its first n add_packet
\* calls, from the packets it drained and the decisions of the drop policy
BuilderAfter(n) ==
  DrainDelayed(NewBuilder(<< >>), vmw_drained, 1, n, vmw_policy_drops,
               VMW_COMMON_MAX_PACKETS_PER_TIMESLOT)

\* C37 (accumulator consistency): after every add_packet call and after the
\* finalize call of a builder, each byte accumulator equals the sum of
\* (packet bytes + 2) over the packets in its pending vector, and so is 0
\* when that vector is empty.
AccumulatorConsistency ==
  /\ \A n \in 0..Len(vmw_drained) : AccumulatorsAgree(BuilderAfter(n))
  /\ AccumulatorsAgree(finalize(BuilderAfter(Len(vmw_drained))))

\* C38 (counter partition on the VMW endpoint): a step that receives a VMW
\* datagram of non-zero length adds 1 to TotalInvalidMplsPacketsDiscarded and
\* nothing to TotalMplsPacketsConverted if the datagram fails a parser check,
\* and 1 to TotalMplsPacketsConverted and nothing to the other counter if it
\* passes them all, a declared num_packets of 0 included.
CounterPartition ==
  [][ ( vmw_reads' # vmw_reads /\ vmw_last_dg'.size > 0 )
        => IF ParserFails(vmw_last_dg')
           THEN /\ TotalInvalidMplsPacketsDiscarded' = TotalInvalidMplsPacketsDiscarded + 1
                /\ TotalMplsPacketsConverted' = TotalMplsPacketsConverted
           ELSE /\ TotalMplsPacketsConverted' = TotalMplsPacketsConverted + 1
                /\ TotalInvalidMplsPacketsDiscarded' = TotalInvalidMplsPacketsDiscarded
    ]_vars

\* C39 (no wraparound of the due frame): every element of the delayed map of
\* the MD and of the VMW endpoint is stored under the key f_in + d, the sum
\* taken as a number that is not reduced modulo 2^32.
DueFrameNotWrapped ==
  /\ \A i \in 1..Len(md_write_delayed_) :
       md_write_delayed_[i].first = DueFrame(md_write_delayed_[i].second)
  /\ \A i \in 1..Len(vmw_write_delayed_) :
       vmw_write_delayed_[i].first = DueFrame(vmw_write_delayed_[i].second)

\* a BuildMessageBytes that writes the byte count of the MPLS packets alone
\* into message_length
MessageBytesLengthOfPackets(message) ==
  LET mpls_packets == message.packets
  IN  VmwDatagram(VMW_MESSAGE_HEADER_SIZE + NUM_PACKETS_SIZE
                    + BatchBytes(mpls_packets, 1, Len(mpls_packets)),
                  BatchBytes(mpls_packets, 1, Len(mpls_packets)),
                  Len(mpls_packets) % 65536,
                  [ n \in 1..Len(mpls_packets) |->
                      [ len |-> mpls_packets[n].packet_size,
                        vitm |-> mpls_packets[n].vitm,
                        vitm_in_bounds |-> mpls_packets[n].vitm_in_bounds,
                        payload_type |-> mpls_packets[n].payload_type ] ])

\* the bytes BuildMessageBytes hands to VMWUplinkMessage::Create, as the
\* datagram a receiver gets: the header with message_length = the size of
\* all buffers (far below 2^32), the uint16_t packet count, and per packet
\* its bytes, which begin with the length field the packet was prepared with
MessageBytes(message) ==
  LET mpls_packets == message.packets
      buffer_size == VMW_MESSAGE_HEADER_SIZE + NUM_PACKETS_SIZE
                       + BatchBytes(mpls_packets, 1, Len(mpls_packets))
  IN  VmwDatagram(buffer_size, buffer_size, Len(mpls_packets) % 65536,
                  [ n \in 1..Len(mpls_packets) |->
                      [ len |-> mpls_packets[n].packet_size,
                        vitm |-> mpls_packets[n].vitm,
                        vitm_in_bounds |-> mpls_packets[n].vitm_in_bounds,
                        payload_type |-> mpls_packets[n].payload_type ] ])

\* the buffer a packet was prepared from satisfies the size rules: a VITM's
\* payload lies within the bounds, a fixed-size ITM has 48 bytes (52 with
\* its MPLS header)
SatisfiesSizeRules(p) ==
  IF p.vitm
  THEN p.vitm_in_bounds
  ELSE p.buf_size = ( IF p.fn = "SendUplinkITM" THEN FIXED_ITM_SIZE
                      ELSE MPLS_FIXED_ITM_SIZE )

\* SendUplinkITM clipped the last byte of the packet's ITM
Clipped(p) == p.fn = "SendUplinkITM" /\ ~p.vitm /\ p.payload_type \in {0, 1, 3}

\* the batch messages of the VMW write queue that hold at least one packet,
\* every packet prepared from a buffer that satisfies the size rules
RuleAbidingBatches ==
  { vmw_write_queue_[i] : i \in
      { j \in 1..Len(vmw_write_queue_) :
          /\ vmw_write_queue_[j].kind = "batch"
          /\ vmw_write_queue_[j].packets # << >>
          /\ \A n \in 1..Len(vmw_write_queue_[j].packets) :
               SatisfiesSizeRules(vmw_write_queue_[j].packets[n]) } }

\* Perform accepts the bytes of the message and returns its packets, one
\* buffer for each in the same order, each buffer being the packet's bytes
\* after the 2-byte length field
RoundTrips(message) ==
  LET dg == MessageBytes(message)
      mpls_buffers == PerformBuffers(dg)
  IN  /\ Len(mpls_buffers) = Len(message.packets)
      /\ \A n \in 1..Len(mpls_buffers) :
           /\ Perform(dg)[n] = n
           /\ mpls_buffers[n].size = message.packets[n].size - MPLS_NUM_BYTES_SIZE
           /\ mpls_buffers[n].first =
                VMW_MESSAGE_HEADER_SIZE + NUM_PACKETS_SIZE
                  + BatchBytes(message.packets, 1, n - 1) + MPLS_NUM_BYTES_SIZE

\* C40 as stated (builder/parser round trip): every batch message built from
\* a non-empty list of packets prepared from buffers that satisfy the size
\* rules is accepted by VMWMessageParser::Perform, which returns the packets
\* in order, each without its length prefix.
BuilderParserRoundTrip == \A message \in RuleAbidingBatches : RoundTrips(message)

\* C40 (amended): such a batch message makes the round trip if SendUplinkITM
\* clipped none of its packets; if it holds a fixed-size ITM of payload type
\* 0, 1 or 3 that SendUplinkITM prepared, Perform rejects the whole message
\* and returns the empty vector.
RoundTripUnlessClipped ==
  \A message \in RuleAbidingBatches :
    IF \E n \in 1..Len(message.packets) : Clipped(message.packets[n])
    THEN PerformBuffers(MessageBytes(message)) = << >>
    ELSE RoundTrips(message)

\* a batch of two packets on the write queue, a fixed-size ITM that
\* SendUplinkITM left whole and a VITM that SendUplinkMPLSPacket prepared
TwoPreparedPacketsBatched ==
  \E message \in RuleAbidingBatches :
    /\ Len(message.packets) = 2
    /\ \E n \in 1..2 : /\ message.packets[n].fn = "SendUplinkITM"
                        /\ ~message.packets[n].vitm
                        /\ message.packets[n].packet_size = MPLS_FIXED_ITM_SIZE
    /\ \E n \in 1..2 : /\ message.packets[n].fn = "SendUplinkMPLSPacket"
                        /\ message.packets[n].vitm
====
